---- MODULE Spec2Model ----
(***************************************************************************)
(* City Digital Twin (backend/modules/city_digital_twin.py): a network of  *)
(* battery-swap stations simulated minute by minute.                       *)
(*                                                                         *)
(* Python objects live in `heap`: a dict is a function from its keys to    *)
(* its values, stored under a reference.  copy.deepcopy allocates a new    *)
(* reference; an assignment to a dict's key rewrites the dict stored       *)
(* under its reference.  Objects no variable refers to any more are        *)
(* dropped (garbage collection).                                           *)
(*                                                                         *)
(* Numbers that are floats in the code and need not be integers (demand    *)
(* factors, probabilities, hours) are exact fractions <<n, d>> with d > 0. *)
(***************************************************************************)
EXTENDS Integers, Sequences, FiniteSets, TLC

VARIABLES
    heap,            \* reference -> dict (every dict the program holds)
    stations_data,   \* the caller's topology list: a sequence of references
    config,          \* the dict _load_simulation_config returned
    initial_state,   \* self.initial_state: a sequence of references
    stations,        \* self.stations: ordered dict, a sequence of <<id, ref>>
    demand_curve,    \* self.demand_curve
    charge_time,     \* self.CHARGE_TIME_MINUTES
    interventions,   \* the list passed to the run_simulation in progress
    minute,          \* loop variable of run_simulation
    station_idx,     \* position of the inner loop over self.stations.items()
    demand_mod,      \* demand_mod of the minute in progress
    pc,              \* "new", "ready", "loop", "stations", "done", "failed"
    report,          \* <<what this run_simulation returned>>, <<>> before it returns
    draws,           \* outcomes of random.random() < arrival_prob, this run
    prev,            \* <<the previous completed run>>: interventions, draws, report
    replay,          \* "no", or how the run in progress repeats prev with its
                     \* draws: "same_instance" or "fresh_instance"
    request,         \* the intervention list of this run as the caller wrote it
    reshaped,        \* an earlier run of this simulator applied an add_station,
                     \* remove_station or modify_chargers and completed
    caller,          \* the scenario: what the caller wrote, never assigned again
    twin,            \* <<a second simulator run beside this one on the same
                     \* topology>>: its heap, stations, interventions,
                     \* demand_mod, last arrival outcome and report; <<>> when
                     \* there is none
    threads,         \* the /api/simulation/run requests being served at the
                     \* same time, one record per worker thread: the request,
                     \* the objects only its CityDigitalTwin refers to, and the
                     \* position of its run; <<>> when none is modelled
    last             \* <<the last station step>>: its station, minute, the
                     \* demand_mod it was given and its intermediate values

vars == <<heap, stations_data, config, initial_state, stations, demand_curve,
          charge_time, interventions, minute, station_idx, demand_mod, pc,
          report, draws, prev, replay, request, reshaped, caller, twin,
          threads, last>>

----------------------------------------------------------------------------
(* Bounds of the model *)

\* Minute steps of one run.  The code runs simulation_duration_hours * 60
\* = 1440 of them; the model runs the same loop over a shorter horizon.
MaxMinutes == 7

\* Station states a single step is applied to: ready batteries, queued
\* vehicles, chargers, and batteries on charge.
MaxReady == 5
MaxQueue == 11
MaxChargers == 2
MaxCharging == 2

\* Minute steps of two runs compared side by side.
PairMinutes == 10

\* Minute steps of each of two runs served at the same time.
ServeMinutes == 3

\* Days over whose minutes the arrival probability is evaluated.
MaxDays == 2

----------------------------------------------------------------------------
(* Program constants *)

DEFAULT_TOTAL_SLOTS == 15
DEFAULT_CHARGERS == 12
DEFAULT_INITIAL_INVENTORY == 10
DEFAULT_CHARGE_TIME == 60
SERVICE_BAYS == 4
QUEUE_HARD_LIMIT == 10
QUEUE_SOFT_LIMIT == 5
MINUTES_PER_HOUR == 60
HOURS_PER_DAY == 24

----------------------------------------------------------------------------
(* Fractions *)

Rat(n, d) == <<n, d>>
RMul(a, b) == <<a[1] * b[1], a[2] * b[2]>>
RLeq(a, b) == a[1] * b[2] <= b[1] * a[2]
RLess(a, b) == a[1] * b[2] < b[1] * a[2]
ROne == <<1, 1>>

----------------------------------------------------------------------------
(* Python dicts and lists *)

NoValue == "None"

\* d[k] = v
DictPut(d, k, v) == (k :> v) @@ d

\* d.setdefault(k, v)
SetDefault(d, k, v) == IF k \in DOMAIN d THEN d ELSE (k :> v) @@ d

\* d.get(k, v)
DictGet(d, k, v) == IF k \in DOMAIN d THEN d[k] ELSE v

\* An insertion-ordered dict from station id to reference: <<id, ref>> pairs.
Keys(od) == {od[i][1] : i \in 1..Len(od)}
Lookup(od, k) == LET i == CHOOSE j \in 1..Len(od) : od[j][1] = k IN od[i][2]
\* Mutant of OrderedPut: od.setdefault(k, r), an existing key keeps its value.
OrderedPutIfAbsent(od, k, r) ==
    IF k \in Keys(od) THEN od ELSE Append(od, <<k, r>>)
\* od[k] = r : an existing key keeps its position
OrderedPut(od, k, r) ==
    IF k \in Keys(od)
    THEN [i \in 1..Len(od) |-> IF od[i][1] = k THEN <<k, r>> ELSE od[i]]
    ELSE Append(od, <<k, r>>)
\* Mutant of OrderedDel: nothing is deleted.
OrderedDelNothing(od, k) == od
\* del od[k]
OrderedDel(od, k) == SelectSeq(od, LAMBDA e : e[1] # k)

\* The heap without the objects of one kind ("st": station dicts, "data":
\* intervention data), which nothing refers to once self.stations or the
\* caller's intervention list is rebound.
WithoutKind(h, kind) == [r \in {q \in DOMAIN h : q[1] # kind} |-> h[r]]

----------------------------------------------------------------------------
(* _init_station_state *)

ZeroMetrics ==
    [total_swaps_fulfilled |-> 0, lost_swaps |-> 0, total_wait_time_minutes |-> 0,
     idle_inventory_minutes |-> 0, charger_utilization_minutes |-> 0]

\* Lines 62-80, on the copy s of the station's data.
InitialisedState(s) ==
    LET s1 == SetDefault(s, "total_slots", DEFAULT_TOTAL_SLOTS)
        s2 == SetDefault(s1, "chargers", DEFAULT_CHARGERS)
        s3 == SetDefault(s2, "initial_inventory", DEFAULT_INITIAL_INVENTORY)
        s4 == DictPut(s3, "inventory_ready", s3["initial_inventory"])
        s5 == DictPut(s4, "inventory_charging", <<>>)
        s6 == DictPut(s5, "queue_length", 0)
    IN  DictPut(s6, "metrics", ZeroMetrics)

\* Mutant of _init_station_state: s = station_data, no copy; the caller's dict
\* is initialised in place and returned.
InitStationStateInPlace(h, src, new) ==
    [heap |-> [h EXCEPT ![src] = InitialisedState(h[src])], ref |-> src]

\* _init_station_state(station_data): the dict under `src` is deep-copied to the
\* new reference `new`, the copy is initialised and returned.
_init_station_state(h, src, new) ==
    [heap |-> (new :> InitialisedState(h[src])) @@ h, ref |-> new]

\* Mutant of BuildStations: one state dict, made from the first station's data,
\* is the value of every key (dict.fromkeys(ids, state)).
RECURSIVE BuildStationsShared(_, _, _)
BuildStationsShared(acc, refs, i) ==
    IF i > Len(refs) THEN acc
    ELSE LET r == _init_station_state(acc.heap, refs[1], <<"st", 1>>)
         IN  BuildStationsShared(
                 [heap |-> r.heap,
                  stations |-> OrderedPut(acc.stations, r.heap[refs[i]]["id"], r.ref)],
                 refs, i + 1)

\* {s["id"]: self._init_station_state(s) for s in refs}, the i-th new station
\* dict allocated at <<"st", i>>.  acc = [heap, stations].
RECURSIVE BuildStations(_, _, _)
BuildStations(acc, refs, i) ==
    IF i > Len(refs) THEN acc
    ELSE LET r == _init_station_state(acc.heap, refs[i], <<"st", i>>)
         IN  BuildStations(
                 [heap |-> r.heap,
                  stations |-> OrderedPut(acc.stations, r.heap[refs[i]]["id"], r.ref)],
                 refs, i + 1)

\* Mutant of ResetStations: no reset, the run goes on from self.stations.
ResetStationsKept(h, od, refs) == [heap |-> h, stations |-> od]

\* Mutant of ResetStations: self.stations.update(...), the stations of
\* initial_state are made anew and the others stay.
ResetStationsUpdated(h, od, refs) ==
    BuildStations([heap |-> h, stations |-> od], refs, 1)

\* Line 94: self.stations is rebound to dicts built from self.initial_state;
\* od is the self.stations it replaces.
ResetStations(h, od, refs) ==
    BuildStations([heap |-> WithoutKind(h, "st"), stations |-> <<>>], refs, 1)

\* Mutant of DeepCopyList: self.initial_state = stations_data, the caller's
\* list and dicts themselves.
DeepCopyListAliased(h, refs) == [heap |-> h, refs |-> refs]

\* copy.deepcopy(stations_data): the i-th copy allocated at <<"init", i>>.
DeepCopyList(h, refs) ==
    [heap |-> [r \in {<<"init", i>> : i \in 1..Len(refs)} |-> h[refs[r[2]]]] @@ h,
     refs |-> [i \in 1..Len(refs) |-> <<"init", i>>]]

----------------------------------------------------------------------------
(* _simulate_station_step, sub-step by sub-step, on the station's dict *)

AddMetric(station, name, amount) ==
    DictPut(station, "metrics", [station["metrics"] EXCEPT ![name] = @ + amount])

\* Mutant of ChargeLoop: chargers_available is never decremented.
RECURSIVE ChargeLoopUncapped(_, _, _)
ChargeLoopUncapped(list, i, acc) ==
    IF i > Len(list) THEN acc
    ELSE LET new_time == list[i] - 1
         IN  IF acc.chargers_available > 0
             THEN ChargeLoopUncapped(list, i + 1,
                      [chargers_available |-> acc.chargers_available,
                       active_charging_count |-> acc.active_charging_count + 1,
                       inventory_ready |->
                           IF new_time <= 0 THEN acc.inventory_ready + 1
                                            ELSE acc.inventory_ready,
                       next_charging_state |->
                           IF new_time <= 0 THEN acc.next_charging_state
                                            ELSE Append(acc.next_charging_state, new_time)])
             ELSE ChargeLoopUncapped(list, i + 1,
                      [acc EXCEPT !.next_charging_state = Append(@, list[i])])

\* Mutant of ChargeLoop: a battery whose charge completes is counted ready and
\* stays in next_charging_state.
RECURSIVE ChargeLoopKeepsCompleted(_, _, _)
ChargeLoopKeepsCompleted(list, i, acc) ==
    IF i > Len(list) THEN acc
    ELSE LET new_time == list[i] - 1
         IN  IF acc.chargers_available > 0
             THEN ChargeLoopKeepsCompleted(list, i + 1,
                      [chargers_available |-> acc.chargers_available - 1,
                       active_charging_count |-> acc.active_charging_count + 1,
                       inventory_ready |->
                           IF new_time <= 0 THEN acc.inventory_ready + 1
                                            ELSE acc.inventory_ready,
                       next_charging_state |-> Append(acc.next_charging_state, new_time)])
             ELSE ChargeLoopKeepsCompleted(list, i + 1,
                      [acc EXCEPT !.next_charging_state = Append(@, list[i])])

\* Mutant of ChargeLoop: a battery is completed when new_time < 0, so an entry
\* that reaches 0 is stored.
RECURSIVE ChargeLoopStoresZero(_, _, _)
ChargeLoopStoresZero(list, i, acc) ==
    IF i > Len(list) THEN acc
    ELSE LET new_time == list[i] - 1
         IN  IF acc.chargers_available > 0
             THEN ChargeLoopStoresZero(list, i + 1,
                      [chargers_available |-> acc.chargers_available - 1,
                       active_charging_count |-> acc.active_charging_count + 1,
                       inventory_ready |->
                           IF new_time < 0 THEN acc.inventory_ready + 1
                                           ELSE acc.inventory_ready,
                       next_charging_state |->
                           IF new_time < 0 THEN acc.next_charging_state
                                           ELSE Append(acc.next_charging_state, new_time)])
             ELSE ChargeLoopStoresZero(list, i + 1,
                      [acc EXCEPT !.next_charging_state = Append(@, list[i])])

\* Mutant of ChargeLoop: a battery on a charger loses two minutes per step.
RECURSIVE ChargeLoopTwoPerStep(_, _, _)
ChargeLoopTwoPerStep(list, i, acc) ==
    IF i > Len(list) THEN acc
    ELSE LET new_time == list[i] - 2
         IN  IF acc.chargers_available > 0
             THEN ChargeLoopTwoPerStep(list, i + 1,
                      [chargers_available |-> acc.chargers_available - 1,
                       active_charging_count |-> acc.active_charging_count + 1,
                       inventory_ready |->
                           IF new_time <= 0 THEN acc.inventory_ready + 1
                                            ELSE acc.inventory_ready,
                       next_charging_state |->
                           IF new_time <= 0 THEN acc.next_charging_state
                                            ELSE Append(acc.next_charging_state, new_time)])
             ELSE ChargeLoopTwoPerStep(list, i + 1,
                      [acc EXCEPT !.next_charging_state = Append(@, list[i])])

\* Lines 159-170: the loop over the sorted charging list.  acc holds the loop's
\* locals chargers_available, active_charging_count, next_charging_state and
\* the station's inventory_ready.
RECURSIVE ChargeLoop(_, _, _)
ChargeLoop(list, i, acc) ==
    IF i > Len(list) THEN acc
    ELSE LET time_left == list[i]
             new_time == time_left - 1
         IN  IF acc.chargers_available > 0
             THEN ChargeLoop(list, i + 1,
                      [chargers_available |-> acc.chargers_available - 1,
                       active_charging_count |-> acc.active_charging_count + 1,
                       inventory_ready |->
                           IF new_time <= 0 THEN acc.inventory_ready + 1
                                            ELSE acc.inventory_ready,
                       next_charging_state |->
                           IF new_time <= 0 THEN acc.next_charging_state
                                            ELSE Append(acc.next_charging_state, new_time)])
             ELSE ChargeLoop(list, i + 1,
                      [acc EXCEPT !.next_charging_state = Append(@, time_left)])

\* Mutant of ProcessCharging: the loop counts down station["chargers"] itself
\* instead of the local chargers_available.
ProcessChargingUsesUpChargers(station) ==
    LET sorted == SortSeq(station["inventory_charging"], LAMBDA a, b : a < b)
        r == ChargeLoop(sorted, 1,
                 [chargers_available |-> station["chargers"],
                  active_charging_count |-> 0,
                  inventory_ready |-> station["inventory_ready"],
                  next_charging_state |-> <<>>])
        s1 == DictPut(station, "inventory_ready", r.inventory_ready)
        s2 == DictPut(s1, "inventory_charging", r.next_charging_state)
        s3 == DictPut(s2, "chargers", r.chargers_available)
    IN  AddMetric(s3, "charger_utilization_minutes", r.active_charging_count)

\* Mutant of ProcessCharging: charger_utilization_minutes grows by the number
\* of batteries on charge, those waiting for a charger included.
ProcessChargingCountsWaiting(station) ==
    LET sorted == SortSeq(station["inventory_charging"], LAMBDA a, b : a < b)
        r == ChargeLoop(sorted, 1,
                 [chargers_available |-> station["chargers"],
                  active_charging_count |-> 0,
                  inventory_ready |-> station["inventory_ready"],
                  next_charging_state |-> <<>>])
        s1 == DictPut(station, "inventory_ready", r.inventory_ready)
        s2 == DictPut(s1, "inventory_charging", r.next_charging_state)
    IN  AddMetric(s2, "charger_utilization_minutes", Len(sorted))

\* Mutant of ProcessCharging: no sort, the chargers go to the batteries in
\* the order of the list.
ProcessChargingUnsorted(station) ==
    LET r == ChargeLoop(station["inventory_charging"], 1,
                 [chargers_available |-> station["chargers"],
                  active_charging_count |-> 0,
                  inventory_ready |-> station["inventory_ready"],
                  next_charging_state |-> <<>>])
        s1 == DictPut(station, "inventory_ready", r.inventory_ready)
        s2 == DictPut(s1, "inventory_charging", r.next_charging_state)
    IN  AddMetric(s2, "charger_utilization_minutes", r.active_charging_count)

\* Lines 150-173: 1. Process Charging.
ProcessCharging(station) ==
    LET sorted == SortSeq(station["inventory_charging"], LAMBDA a, b : a < b)
        r == ChargeLoop(sorted, 1,
                 [chargers_available |-> station["chargers"],
                  active_charging_count |-> 0,
                  inventory_ready |-> station["inventory_ready"],
                  next_charging_state |-> <<>>])
        s1 == DictPut(station, "inventory_ready", r.inventory_ready)
        s2 == DictPut(s1, "inventory_charging", r.next_charging_state)
    IN  AddMetric(s2, "charger_utilization_minutes", r.active_charging_count)

\* Lines 175-177: Track Idle Inventory.
TrackIdleInventory(station) ==
    IF station["inventory_ready"] > 0
    THEN AddMetric(station, "idle_inventory_minutes", station["inventory_ready"])
    ELSE station

\* Mutant of ProcessArrival: queue_length >= 5 in place of > 5.
ProcessArrivalOffByOne(station, arrived) ==
    IF arrived
    THEN IF \/ station["queue_length"] > QUEUE_HARD_LIMIT
            \/ (station["queue_length"] >= QUEUE_SOFT_LIMIT /\ station["inventory_ready"] = 0)
         THEN AddMetric(station, "lost_swaps", 1)
         ELSE DictPut(station, "queue_length", station["queue_length"] + 1)
    ELSE station

\* Mutant of ProcessArrival: a lost arrival is counted and queued as well.
ProcessArrivalLostAlsoQueued(station, arrived) ==
    IF arrived
    THEN LET queued == DictPut(station, "queue_length", station["queue_length"] + 1)
         IN  IF \/ station["queue_length"] > QUEUE_HARD_LIMIT
                \/ (station["queue_length"] > QUEUE_SOFT_LIMIT
                    /\ station["inventory_ready"] = 0)
             THEN AddMetric(queued, "lost_swaps", 1)
             ELSE queued
    ELSE station


\* Mutant of ProcessArrival: only the hard limit turns a vehicle away.
ProcessArrivalHardLimitOnly(station, arrived) ==
    IF arrived
    THEN IF station["queue_length"] > QUEUE_HARD_LIMIT
         THEN AddMetric(station, "lost_swaps", 1)
         ELSE DictPut(station, "queue_length", station["queue_length"] + 1)
    ELSE station

\* Mutant of ProcessArrival: above the soft limit a vehicle is turned away
\* whether or not a battery is ready.
ProcessArrivalIgnoresStock(station, arrived) ==
    IF arrived
    THEN IF station["queue_length"] > QUEUE_SOFT_LIMIT
         THEN AddMetric(station, "lost_swaps", 1)
         ELSE DictPut(station, "queue_length", station["queue_length"] + 1)
    ELSE station

\* Lines 182-188: 2. Process Arrivals; arrived is random.random() < arrival_prob.
ProcessArrival(station, arrived) ==
    IF arrived
    THEN IF \/ station["queue_length"] > QUEUE_HARD_LIMIT
            \/ (station["queue_length"] > QUEUE_SOFT_LIMIT /\ station["inventory_ready"] = 0)
         THEN AddMetric(station, "lost_swaps", 1)
         ELSE DictPut(station, "queue_length", station["queue_length"] + 1)
    ELSE station

\* Mutant of Swap: the drained battery gets the default charge duration, not
\* the configured one.
SwapDefaultDuration(station, charge_time_minutes) ==
    LET s1 == DictPut(station, "inventory_ready", station["inventory_ready"] - 1)
        s2 == DictPut(s1, "queue_length", s1["queue_length"] - 1)
        s3 == AddMetric(s2, "total_swaps_fulfilled", 1)
    IN  DictPut(s3, "inventory_charging",
                Append(s3["inventory_charging"], DEFAULT_CHARGE_TIME))

\* Mutant of Swap: inventory_ready is not decremented.
SwapKeepsReady(station, charge_time_minutes) ==
    LET s2 == DictPut(station, "queue_length", station["queue_length"] - 1)
        s3 == AddMetric(s2, "total_swaps_fulfilled", 1)
    IN  DictPut(s3, "inventory_charging",
                Append(s3["inventory_charging"], charge_time_minutes))

\* Mutant of Swap: the served vehicle stays in the queue.
SwapKeepsQueue(station, charge_time_minutes) ==
    LET s1 == DictPut(station, "inventory_ready", station["inventory_ready"] - 1)
        s3 == AddMetric(s1, "total_swaps_fulfilled", 1)
    IN  DictPut(s3, "inventory_charging",
                Append(s3["inventory_charging"], charge_time_minutes))

\* Lines 198-203: one swap.
Swap(station, charge_time_minutes) ==
    LET s1 == DictPut(station, "inventory_ready", station["inventory_ready"] - 1)
        s2 == DictPut(s1, "queue_length", s1["queue_length"] - 1)
        s3 == AddMetric(s2, "total_swaps_fulfilled", 1)
    IN  DictPut(s3, "inventory_charging",
                Append(s3["inventory_charging"], charge_time_minutes))

\* Mutant of ServiceLoop: a swap is made without a look at inventory_ready.
RECURSIVE ServiceLoopNoStockCheck(_, _, _)
ServiceLoopNoStockCheck(trace, bays_free, charge_time_minutes) ==
    LET station == trace[Len(trace)]
    IN  IF bays_free > 0 /\ station["queue_length"] > 0
        THEN ServiceLoopNoStockCheck(Append(trace, Swap(station, charge_time_minutes)),
                                     bays_free - 1, charge_time_minutes)
        ELSE trace

\* Lines 195-208: the service loop.  trace holds the station's dict on entry
\* and after every swap; its last element is the dict the loop leaves.
RECURSIVE ServiceLoop(_, _, _)
ServiceLoop(trace, bays_free, charge_time_minutes) ==
    LET station == trace[Len(trace)]
    IN  IF bays_free > 0 /\ station["queue_length"] > 0
        THEN IF station["inventory_ready"] > 0
             THEN ServiceLoop(Append(trace, Swap(station, charge_time_minutes)),
                              bays_free - 1, charge_time_minutes)
             ELSE trace
        ELSE trace

\* Mutant of ProcessService: bays_free = 5.
ProcessServiceFiveBays(station, charge_time_minutes) ==
    ServiceLoop(<<station>>, SERVICE_BAYS + 1, charge_time_minutes)

\* Mutant of ProcessService: bays_free = 3.
ProcessServiceThreeBays(station, charge_time_minutes) ==
    ServiceLoop(<<station>>, SERVICE_BAYS - 1, charge_time_minutes)

\* Lines 190-208: 3. Process Service.
ProcessService(station, charge_time_minutes) ==
    ServiceLoop(<<station>>, SERVICE_BAYS, charge_time_minutes)

\* Line 211: wait time of everyone still in the queue.
AccumulateWait(station) ==
    AddMetric(station, "total_wait_time_minutes", station["queue_length"])

\* Mutant of _simulate_station_step: the idle inventory is tracked after the
\* service block, on the batteries the swaps left.
StepIdleAfterService(station, arrived, charge_time_minutes) ==
    LET charged == ProcessCharging(station)
        queued == ProcessArrival(charged, arrived)
        service == ProcessService(queued, charge_time_minutes)
        served == service[Len(service)]
    IN  [before |-> station, charged |-> charged, idled |-> charged,
         arrived |-> arrived, queued |-> queued, service |-> service,
         after |-> AccumulateWait(TrackIdleInventory(served))]

\* Mutant of _simulate_station_step: the wait time is accumulated before the
\* service block, on the queue the arrival left.
StepWaitBeforeService(station, arrived, charge_time_minutes) ==
    LET charged == ProcessCharging(station)
        idled == TrackIdleInventory(charged)
        queued == ProcessArrival(idled, arrived)
        service == ProcessService(AccumulateWait(queued), charge_time_minutes)
    IN  [before |-> station, charged |-> charged, idled |-> idled,
         arrived |-> arrived, queued |-> queued, service |-> service,
         after |-> service[Len(service)]]

\* Mutant of _simulate_station_step: the charging block comes after the
\* service block.
StepChargingAfterService(station, arrived, charge_time_minutes) ==
    LET idled == TrackIdleInventory(station)
        queued == ProcessArrival(idled, arrived)
        service == ProcessService(queued, charge_time_minutes)
        served == service[Len(service)]
    IN  [before |-> station, charged |-> station, idled |-> idled,
         arrived |-> arrived, queued |-> queued, service |-> service,
         after |-> AccumulateWait(ProcessCharging(served))]

\* Lines 147-211: the whole step; every intermediate dict is kept.
_simulate_station_step(station, arrived, charge_time_minutes) ==
    LET charged == ProcessCharging(station)
        idled == TrackIdleInventory(charged)
        queued == ProcessArrival(idled, arrived)
        service == ProcessService(queued, charge_time_minutes)
        served == service[Len(service)]
    IN  [before |-> station, charged |-> charged, idled |-> idled,
         arrived |-> arrived, queued |-> queued, service |-> service,
         after |-> AccumulateWait(served)]

----------------------------------------------------------------------------
(* Demand *)

DEFAULT_WINDOW == <<Rat(0, 1), Rat(HOURS_PER_DAY, 1)>>

\* Mutant of DemandLoop: the window is closed at its end, start <= hour <= end.
RECURSIVE DemandLoopClosedWindow(_, _, _, _)
DemandLoopClosedWindow(base_mod, hour, ivs, k) ==
    IF k > Len(ivs) THEN base_mod
    ELSE LET action == ivs[k]
             window == DictGet(action, "window", DEFAULT_WINDOW)
         IN  IF /\ action["type"] = "shift_demand"
                /\ RLeq(window[1], hour) /\ RLeq(hour, window[2])
             THEN DemandLoopClosedWindow(RMul(base_mod, DictGet(action, "factor", ROne)),
                                         hour, ivs, k + 1)
             ELSE DemandLoopClosedWindow(base_mod, hour, ivs, k + 1)

\* Lines 139-143: the loop over the interventions, base_mod the running product.
RECURSIVE DemandLoop(_, _, _, _)
DemandLoop(base_mod, hour, ivs, k) ==
    IF k > Len(ivs) THEN base_mod
    ELSE LET action == ivs[k]
             window == DictGet(action, "window", DEFAULT_WINDOW)
             start == window[1]
             end == window[2]
         IN  IF action["type"] = "shift_demand" /\ RLeq(start, hour) /\ RLess(hour, end)
             THEN DemandLoop(RMul(base_mod, DictGet(action, "factor", ROne)), hour, ivs, k + 1)
             ELSE DemandLoop(base_mod, hour, ivs, k + 1)

\* Mutant of _get_current_demand_modifier: the loop returns at the first
\* shift_demand whose window holds the hour.
DemandFirstMatchOnly(hour, ivs) ==
    LET hits == {k \in 1..Len(ivs) :
                    /\ ivs[k]["type"] = "shift_demand"
                    /\ RLeq(DictGet(ivs[k], "window", DEFAULT_WINDOW)[1], hour)
                    /\ RLess(hour, DictGet(ivs[k], "window", DEFAULT_WINDOW)[2])}
    IN  IF hits = {} THEN ROne
        ELSE DictGet(ivs[CHOOSE k \in hits : \A j \in hits : k <= j], "factor", ROne)

\* Mutant of _get_current_demand_modifier: base_mod /= factor.
DemandModifierDivided(hour, ivs) ==
    LET m == DemandLoop(ROne, hour, ivs, 1) IN Rat(m[2], m[1])

\* Lines 134-145.  hour is minute / 60.0.
_get_current_demand_modifier(hour, ivs) == DemandLoop(ROne, hour, ivs, 1)

\* Lines 229-233 evaluated at hour = minute / 60.0 for minute = 0, 1, ...:
\* 0.05 + 0.2 exp(-((hour - 9) / 2)^2 / 2) + 0.25 exp(-((hour - 18) / 2)^2 / 2),
\* in units of 10^-7 (rounded).
FallbackTable ==
    <<500080, 500083, 500086, 500090, 500093, 500097, 500100, 500104,
      500108, 500112, 500116, 500121>>
FallbackProfile(hour) ==
    Rat(FallbackTable[((hour[1] * MINUTES_PER_HOUR) \div hour[2]) + 1], 10000000)

BASE_PEAK_RATE == Rat(4, 10)

\* Mutant of _get_arrival_probability: the curve is read at the nearest hour,
\* round(hour), not at int(hour).
ArrivalProbabilityNearestHour(curve, hour) ==
    IF curve # <<>>
    THEN LET hour_idx == ((2 * hour[1] + hour[2]) \div (2 * hour[2])) % HOURS_PER_DAY
         IN  RMul(curve[hour_idx + 1], BASE_PEAK_RATE)
    ELSE FallbackProfile(hour)

\* Lines 213-233.
_get_arrival_probability(curve, hour) ==
    IF curve # <<>>
    THEN LET hour_idx == (hour[1] \div hour[2]) % HOURS_PER_DAY
         IN  RMul(curve[hour_idx + 1], BASE_PEAK_RATE)
    ELSE FallbackProfile(hour)

\* Mutant of ArrivalOutcomes: random.random() <= arrival_prob, which a draw of
\* 0.0 satisfies at probability 0.
ArrivalOutcomesInclusive(arrival_prob) ==
    {b \in BOOLEAN : IF b THEN arrival_prob[1] >= 0 ELSE arrival_prob[1] < arrival_prob[2]}

\* The values random.random() < arrival_prob can take: random() is in [0, 1).
ArrivalOutcomes(arrival_prob) ==
    {b \in BOOLEAN : IF b THEN arrival_prob[1] > 0 ELSE arrival_prob[1] < arrival_prob[2]}

----------------------------------------------------------------------------
(* _apply_static_interventions *)

\* Mutant of SetChargers: station["chargers"] -= count.
SetChargersTakenAway(station, count) ==
    DictPut(station, "chargers", station["chargers"] - count)

\* Line 132: self.stations[sid]["chargers"] = action["count"].
SetChargers(station, count) == DictPut(station, "chargers", count)

\* Mutant of ApplyLoop: no `if sid in self.stations` before del and before the
\* assignment of chargers; an id the map does not hold raises KeyError.
RECURSIVE ApplyLoopStrict(_, _, _)
ApplyLoopStrict(acc, ivs, k) ==
    IF k > Len(ivs) \/ ~acc.ok THEN acc
    ELSE LET action == ivs[k]
             sid == DictGet(action, "station_id", NoValue)
         IN  CASE action["type"] = "add_station" ->
                    IF "data" \notin DOMAIN action
                    THEN [acc EXCEPT !.ok = FALSE]
                    ELSE LET data == action["data"]
                             r == _init_station_state(acc.heap, data, <<"st", acc.base + k>>)
                         IN  ApplyLoopStrict(
                                 [acc EXCEPT !.heap = r.heap,
                                             !.stations = OrderedPut(acc.stations,
                                                              r.heap[data]["id"], r.ref)],
                                 ivs, k + 1)
               [] action["type"] = "remove_station" ->
                    IF sid \in Keys(acc.stations)
                    THEN ApplyLoopStrict([acc EXCEPT !.stations = OrderedDel(@, sid)],
                                         ivs, k + 1)
                    ELSE [acc EXCEPT !.ok = FALSE]
               [] action["type"] = "modify_chargers" ->
                    IF sid \in Keys(acc.stations)
                    THEN IF "count" \notin DOMAIN action
                         THEN [acc EXCEPT !.ok = FALSE]
                         ELSE ApplyLoopStrict(
                                  [acc EXCEPT !.heap[Lookup(acc.stations, sid)] =
                                                  SetChargers(@, action["count"])],
                                  ivs, k + 1)
                    ELSE [acc EXCEPT !.ok = FALSE]
               [] OTHER -> ApplyLoopStrict(acc, ivs, k + 1)

\* Lines 119-132: the loop over the interventions.  acc = [heap, stations, ok,
\* base]: ok turns FALSE when a required key is missing (KeyError) and the
\* loop is left; the station dict of the k-th action is allocated at
\* <<"st", base + k>>.
RECURSIVE ApplyLoop(_, _, _)
ApplyLoop(acc, ivs, k) ==
    IF k > Len(ivs) \/ ~acc.ok THEN acc
    ELSE LET action == ivs[k]
             sid == DictGet(action, "station_id", NoValue)
         IN  CASE action["type"] = "add_station" ->
                    IF "data" \notin DOMAIN action
                    THEN [acc EXCEPT !.ok = FALSE]
                    ELSE LET data == action["data"]
                             r == _init_station_state(acc.heap, data, <<"st", acc.base + k>>)
                         IN  ApplyLoop(
                                 [acc EXCEPT !.heap = r.heap,
                                             !.stations = OrderedPut(acc.stations,
                                                              r.heap[data]["id"], r.ref)],
                                 ivs, k + 1)
               [] action["type"] = "remove_station" ->
                    IF sid \in Keys(acc.stations)
                    THEN ApplyLoop([acc EXCEPT !.stations = OrderedDel(@, sid)], ivs, k + 1)
                    ELSE ApplyLoop(acc, ivs, k + 1)
               [] action["type"] = "modify_chargers" ->
                    IF sid \in Keys(acc.stations)
                    THEN IF "count" \notin DOMAIN action
                         THEN [acc EXCEPT !.ok = FALSE]
                         ELSE ApplyLoop(
                                  [acc EXCEPT !.heap[Lookup(acc.stations, sid)] =
                                                  SetChargers(@, action["count"])],
                                  ivs, k + 1)
                    ELSE ApplyLoop(acc, ivs, k + 1)
               [] OTHER -> ApplyLoop(acc, ivs, k + 1)

\* Mutant of _apply_static_interventions: the loop runs inside try/except, a
\* KeyError ends it silently.
ApplyStaticInterventionsSwallowed(h, od, ivs, base) ==
    [ApplyLoop([heap |-> h, stations |-> od, ok |-> TRUE, base |-> base], ivs, 1)
        EXCEPT !.ok = TRUE]

\* Lines 117-132.
_apply_static_interventions(h, od, ivs, base) ==
    ApplyLoop([heap |-> h, stations |-> od, ok |-> TRUE, base |-> base], ivs, 1)

----------------------------------------------------------------------------
(* _generate_report *)

RECURSIVE BitLength(_)
BitLength(n) == IF n = 0 THEN 0 ELSE 1 + BitLength(n \div 2)

\* Binary long division of rem / q (rem < q): after `need` more significant
\* bits (none counted before the first 1 bit unless started), how the rest
\* compares to half a unit in the last place: "exact", "below", "half", "above".
RECURSIVE TailOfQuotient(_, _, _, _)
TailOfQuotient(rem, q, need, started) ==
    IF rem = 0 THEN "exact"
    ELSE IF need = 0
         THEN IF 2 * rem > q THEN "above" ELSE IF 2 * rem = q THEN "half" ELSE "below"
         ELSE LET bit == IF 2 * rem >= q THEN 1 ELSE 0
                  next == 2 * rem - bit * q
              IN  IF started \/ bit = 1
                  THEN TailOfQuotient(next, q, need - 1, TRUE)
                  ELSE TailOfQuotient(next, q, need, FALSE)

\* round(n / d, 1) in tenths, n >= 0, d > 0.  Python rounds the double n / d
\* (53 significant bits, nearest to the fraction) correctly to one decimal:
\* where the fraction is halfway between two tenths, the double decides, and a
\* double exactly halfway goes to the even tenth.
Round1(n, d) ==
    LET tenths == (10 * n) \div d
        rest == (10 * n) % d
        whole == n \div d
        tail == TailOfQuotient(n % d, d, 53 - BitLength(whole), whole > 0)
    IN  IF 2 * rest < d THEN tenths
        ELSE IF 2 * rest > d THEN tenths + 1
        ELSE IF tail = "exact"
             THEN (IF tenths % 2 = 0 THEN tenths ELSE tenths + 1)
             ELSE (IF tail = "above" THEN tenths + 1 ELSE tenths)

\* Doubles, for the value that goes through two float operations before it is
\* rounded (line 257).  A positive double is [a, b, c, exp]: its 53
\* significant bits in three parts, the leading 17 bits a and the next 18 and
\* 18 bits b and c, and the power of two exp of the last bit; its value is
\* (a * Limb^2 + b * Limb + c) * 2^exp.
Limb == 262144
LeadOne == 65536
Double == [a : Nat, b : Nat, c : Nat, exp : Int]

RECURSIVE Pow2(_)
Pow2(k) == IF k = 0 THEN 1 ELSE 2 * Pow2(k - 1)

\* The 53 bits kept, moved up by one unit in the last place when up = 1; a
\* mantissa that reaches 2^53 becomes 2^52 one power of two higher.
Rounded(a, b, c, exp, up) ==
    LET c1 == c + up
        b1 == b + (c1 \div Limb)
        a1 == a + (b1 \div Limb)
    IN  IF a1 = 2 * LeadOne
        THEN [a |-> LeadOne, b |-> 0, c |-> 0, exp |-> exp + 1]
        ELSE [a |-> a1, b |-> b1 % Limb, c |-> c1 % Limb, exp |-> exp]

\* Binary long division: the quotient so far is (a, b, c) * 2^exp with the
\* remainder rem of the divisor d; one more bit is taken until 53 significant
\* bits stand.
Division == [a : Nat, b : Nat, c : Nat, exp : Int, rem : Nat, d : Nat]
LongDivision[s \in Division] ==
    IF s.a >= LeadOne THEN s
    ELSE LET bit == IF 2 * s.rem >= s.d THEN 1 ELSE 0
             c1 == 2 * s.c + bit
             b1 == 2 * s.b + (c1 \div Limb)
         IN  LongDivision[[a |-> 2 * s.a + (b1 \div Limb), b |-> b1 % Limb,
                           c |-> c1 % Limb, exp |-> s.exp - 1,
                           rem |-> 2 * s.rem - bit * s.d, d |-> s.d]]

\* The double nearest to a quotient of 53 bits and its remainder, ties to the
\* even mantissa.
Nearest[s \in Division] ==
    Rounded(s.a, s.b, s.c, s.exp,
            IF 2 * s.rem > s.d \/ (2 * s.rem = s.d /\ s.c % 2 = 1) THEN 1 ELSE 0)

\* n / d for ints n > 0, d > 0: the double nearest to the quotient.
FloatDiv(n, d) ==
    Nearest[LongDivision[[a |-> 0, b |-> (n \div d) \div Limb, c |-> (n \div d) % Limb,
                          exp |-> 0, rem |-> n % d, d |-> d]]]

\* x * k for a double x and a natural k in 1..8191: the exact product
\* rounded to 53 bits, ties to even.
FloatTimes[x \in Double, k \in Nat] ==
    LET c1 == x.c * k
        b1 == x.b * k + (c1 \div Limb)
        a1 == x.a * k + (b1 \div Limb)
        lo == c1 % Limb
        mid == b1 % Limb
        drop == BitLength(a1) - 17
        unit == Pow2(drop)
        tail == lo % unit
        kept_c == (lo \div unit) + (mid % unit) * (Limb \div unit)
        kept_b == (mid \div unit) + (a1 % unit) * (Limb \div unit)
        up == 2 * tail > unit \/ (drop > 0 /\ 2 * tail = unit /\ kept_c % 2 = 1)
    IN  Rounded(a1 \div unit, kept_b, kept_c, x.exp + drop, IF up THEN 1 ELSE 0)

\* A double x below 2^16 times scale (1, 10 or 1000), rounded to the nearest
\* integer from the exact value of x, a value exactly halfway to the even one:
\* Python's round(x, 1) counted in tenths is RoundFloat[x, 10], and the
\* nearest integer of x itself is RoundFloat[x, 1].
RoundFloat[x \in Double, scale \in Nat] ==
    LET c1 == x.c * scale
        b1 == x.b * scale + (c1 \div Limb)
        a1 == x.a * scale + (b1 \div Limb)
        lo == c1 % Limb
        mid == b1 % Limb
        behind == -x.exp - 36
    IN  IF behind > BitLength(a1) THEN 0
        ELSE LET unit == Pow2(behind)
                 whole == a1 \div unit
                 rest == a1 % unit
             IN  IF 2 * rest > unit \/ (2 * rest = unit /\ (mid > 0 \/ lo > 0))
                 THEN whole + 1
                 ELSE IF 2 * rest = unit /\ whole % 2 = 1 THEN whole + 1
                 ELSE whole

\* round(minutes / total_charger_minutes * 100, 1) in tenths, lines 257 and
\* 263: the quotient is a double, the product is a double, and that is rounded.
\* The two roundings to a double move the exact percentage by less than one
\* part in 2^51, which cannot carry it across the middle between two tenths
\* (minutes below 2^21, total_charger_minutes below 2^25); where the exact
\* percentage is that middle (28.75, say), the double decides.
UtilizationPct1(minutes, total_charger_minutes) ==
    LET tenths == (1000 * minutes) \div total_charger_minutes
        rest == (1000 * minutes) % total_charger_minutes
    IN  IF 2 * rest < total_charger_minutes THEN tenths
        ELSE IF 2 * rest > total_charger_minutes THEN tenths + 1
        ELSE RoundFloat[FloatTimes[FloatDiv(minutes, total_charger_minutes), 100], 10]

\* Mutant of StationReport: the two quotients are not guarded; a division by
\* zero, which raises ZeroDivisionError, is shown as -1.
StationReportUnguarded(st, minutes_total) ==
    LET m == st["metrics"]
        swaps == m.total_swaps_fulfilled
        total_charger_minutes == st["chargers"] * minutes_total
    IN  [swaps |-> swaps,
         lost_swaps |-> m.lost_swaps,
         avg_wait_time_min |->
             IF swaps # 0 THEN Round1(m.total_wait_time_minutes, swaps) ELSE -1,
         charger_utilization_pct |->
             IF total_charger_minutes # 0
             THEN UtilizationPct1(m.charger_utilization_minutes, total_charger_minutes)
             ELSE -1,
         idle_inventory_min |-> m.idle_inventory_minutes]

\* Lines 252-265: one station's entry.  The two rounded floats are in tenths.
StationReport(st, minutes_total) ==
    LET m == st["metrics"]
        swaps == m.total_swaps_fulfilled
        total_charger_minutes == st["chargers"] * minutes_total
    IN  [swaps |-> swaps,
         lost_swaps |-> m.lost_swaps,
         avg_wait_time_min |->
             IF swaps > 0 THEN Round1(m.total_wait_time_minutes, swaps) ELSE 0,
         charger_utilization_pct |->
             IF total_charger_minutes > 0
             THEN UtilizationPct1(m.charger_utilization_minutes, total_charger_minutes)
             ELSE 0,
         idle_inventory_min |-> m.idle_inventory_minutes]

\* Lines 248-272: the loop over self.stations.items().  acc = [summary,
\* total_wait_mins, total_swaps].
RECURSIVE ReportLoop(_, _, _, _, _)
ReportLoop(acc, h, od, minutes_total, i) ==
    IF i > Len(od) THEN acc
    ELSE LET sid == od[i][1]
             st == h[od[i][2]]
             m == st["metrics"]
             st_report == StationReport(st, minutes_total)
         IN  ReportLoop(
                 [summary |->
                      [acc.summary EXCEPT
                          !.stations = OrderedPut(@, sid, st_report),
                          !.total_swaps = @ + m.total_swaps_fulfilled,
                          !.lost_swaps = @ + m.lost_swaps],
                  total_wait_mins |-> acc.total_wait_mins + m.total_wait_time_minutes,
                  total_swaps |-> acc.total_swaps + m.total_swaps_fulfilled],
                 h, od, minutes_total, i + 1)

\* Mutant of _generate_report: avg_wait_time is the mean of the stations'
\* avg_wait_time_min.
GenerateReportMeanOfAverages(h, od, minutes_total) ==
    LET r == ReportLoop(
                 [summary |-> [total_swaps |-> 0, lost_swaps |-> 0,
                               avg_wait_time |-> 0, stations |-> <<>>],
                  total_wait_mins |-> 0, total_swaps |-> 0],
                 h, od, minutes_total, 1)
        entries == r.summary.stations
        RECURSIVE SumOfAverages(_)
        SumOfAverages(i) ==
            IF i = 0 THEN 0 ELSE entries[i][2].avg_wait_time_min + SumOfAverages(i - 1)
    IN  IF r.total_swaps > 0
        THEN [r.summary EXCEPT
                 !.avg_wait_time = Round1(SumOfAverages(Len(entries)), 10 * Len(entries))]
        ELSE r.summary

\* Lines 235-277.  avg_wait_time is in tenths.
_generate_report(h, od, minutes_total) ==
    LET r == ReportLoop(
                 [summary |-> [total_swaps |-> 0, lost_swaps |-> 0,
                               avg_wait_time |-> 0, stations |-> <<>>],
                  total_wait_mins |-> 0, total_swaps |-> 0],
                 h, od, minutes_total, 1)
    IN  IF r.total_swaps > 0
        THEN [r.summary EXCEPT !.avg_wait_time = Round1(r.total_wait_mins, r.total_swaps)]
        ELSE r.summary

----------------------------------------------------------------------------
(* Inputs: topologies, configurations and intervention lists *)

Curve(v) == [i \in 1..HOURS_PER_DAY |-> v]

\* simulation_config.json absent: the fallback demand profile, 60-minute charge.
ConfigAbsent == <<>>
\* A calibrated configuration: peak demand all day, 2-minute charge.
ConfigPeak == [avg_charge_time_minutes |-> 2, demand_curve_hourly |-> Curve(Rat(1, 1))]
\* A calibrated configuration without demand: a curve of all zeros.
ConfigZero == [avg_charge_time_minutes |-> 2, demand_curve_hourly |-> Curve(Rat(0, 1))]

Scarce == [id |-> "S1", total_slots |-> 2, chargers |-> 1, initial_inventory |-> 2]
Starved == [id |-> "S1", chargers |-> 0, initial_inventory |-> 0]
Plain == [id |-> "S2"]

StructuralTypes == {"add_station", "remove_station", "modify_chargers"}

AddStation(data) == [type |-> "add_station", data |-> data]
RemoveStation(sid) == [type |-> "remove_station", station_id |-> sid]
ModifyChargers(sid, count) == [type |-> "modify_chargers", station_id |-> sid, count |-> count]
ShiftDemand(factor) == [type |-> "shift_demand", factor |-> factor]
ShiftDemandIn(factor, start, end) ==
    [type |-> "shift_demand", factor |-> factor, window |-> <<start, end>>]

Relief == [id |-> "S3", chargers |-> 1, initial_inventory |-> 1]
Rebuilt == [id |-> "S1", initial_inventory |-> 1]
\* No arrival from minute 3 on (3 minutes are 1/20 hour).
Quiet == ShiftDemandIn(Rat(0, 1), Rat(1, 20), Rat(HOURS_PER_DAY, 1))

Scenarios ==
    { [stations_data |-> <<Scarce>>, config |-> ConfigPeak,
       requests |-> { <<>>,
                      <<ModifyChargers("S1", 2)>>,
                      <<ModifyChargers("S1", 3), AddStation(Rebuilt)>>,
                      <<AddStation(Relief), Quiet>>,
                      <<AddStation(Relief), RemoveStation("S3")>>,
                      <<AddStation(Rebuilt), RemoveStation("S1")>>,
                      <<RemoveStation("S9"), ModifyChargers("S9", 5)>>,
                      <<ShiftDemand(Rat(5, 2))>>,
                      <<[type |-> "add_station"]>> }],
      [stations_data |-> <<Starved>>, config |-> ConfigAbsent,
       requests |-> { <<>>, <<ShiftDemand(Rat(3, 2))>> }],
      [stations_data |-> <<Starved, Plain>>, config |-> ConfigPeak,
       requests |-> { <<Quiet>>, <<RemoveStation("S1")>>, <<ShiftDemand(Rat(5, 2))>>,
                      <<ShiftDemand(Rat(5, 2)), Quiet>>,
                      <<Quiet, ShiftDemand(Rat(5, 2))>> }],
      [stations_data |-> <<Scarce, Plain>>, config |-> ConfigPeak,
       requests |-> { <<ShiftDemand(Rat(5, 2))>>,
                      <<ShiftDemand(Rat(5, 2)), RemoveStation("S2")>> }],
      [stations_data |-> <<Starved>>, config |-> ConfigZero,
       requests |-> { <<>>, <<ShiftDemand(Rat(5, 2))>> }],
      [stations_data |-> <<>>, config |-> ConfigAbsent,
       requests |-> { <<>>, <<RemoveStation("S1")>> }] }

\* Intervention lists for the demand modifier alone: the windows of the code's
\* docstring and scripts, a window of fractional hours, a list of two
\* overlapping windows, a shift without window and one without factor.
Whole(n) == Rat(n, 1)
DemandRequests ==
    { <<>>,
      <<ShiftDemandIn(Rat(3, 2), Whole(8), Whole(22))>>,
      <<ShiftDemandIn(Rat(6, 5), Whole(18), Whole(20))>>,
      <<ShiftDemandIn(Rat(2, 1), Rat(17, 2), Whole(10))>>,
      <<Quiet>>,
      <<ShiftDemand(Rat(5, 2))>>,
      <<[type |-> "shift_demand", window |-> <<Whole(8), Whole(22)>>]>>,
      <<ShiftDemandIn(Rat(3, 2), Whole(8), Whole(22)),
        ModifyChargers("S1", 2),
        ShiftDemandIn(Rat(1, 2), Whole(18), Whole(20))>> }

\* The minutes of the code's horizon: range(24 * 60).
DayMinutes == 0..(HOURS_PER_DAY * MINUTES_PER_HOUR - 1)

\* Mutant of minutes_total: the minute loop runs over range(minutes_total + 1).
HorizonOffByOne == MaxMinutes + 1

\* The horizon of a run: simulation_duration_hours * 60 in the code.
minutes_total == MaxMinutes

----------------------------------------------------------------------------
(* The caller and the simulator *)

\* The caller's intervention list, its add_station data dicts on the heap at
\* <<"data", k>>.
PlaceInterventions(h, req) ==
    LET withData == {k \in 1..Len(req) : "data" \in DOMAIN req[k]}
    IN  [heap |-> [r \in {<<"data", k>> : k \in withData} |-> req[r[2]]["data"]] @@ h,
         list |-> [k \in 1..Len(req) |->
                      IF k \in withData
                      THEN DictPut(req[k], "data", <<"data", k>>)
                      ELSE req[k]]]

\* The intervention list as the caller reads it back.
ReadInterventions(h, ivs) ==
    [k \in 1..Len(ivs) |->
        IF "data" \in DOMAIN ivs[k] THEN DictPut(ivs[k], "data", h[ivs[k]["data"]])
        ELSE ivs[k]]

\* self.stations as a caller would read it: the dicts in place of references.
ReadStations(h, od) == [i \in 1..Len(od) |-> <<od[i][1], h[od[i][2]]>>]

Init ==
    \E sc \in Scenarios :
        /\ caller = sc
        /\ heap = [r \in {<<"topo", i>> : i \in 1..Len(sc.stations_data)} |->
                      sc.stations_data[r[2]]]
        /\ stations_data = [i \in 1..Len(sc.stations_data) |-> <<"topo", i>>]
        /\ config = sc.config
        /\ initial_state = <<>>
        /\ stations = <<>>
        /\ demand_curve = <<>>
        /\ charge_time = 0
        /\ interventions = <<>>
        /\ minute = 0
        /\ station_idx = 0
        /\ demand_mod = ROne
        /\ pc = "new"
        /\ report = <<>>
        /\ draws = <<>>
        /\ prev = <<>>
        /\ replay = "no"
        /\ request = <<>>
        /\ reshaped = FALSE
        /\ last = <<>>
        /\ twin = <<>>
        /\ threads = <<>>

\* CityDigitalTwin(stations_data), lines 33-46: a new simulator; an earlier
\* one is dropped.
Construct ==
    /\ pc \in {"new", "done", "failed"}
    /\ LET h0 == [r \in {q \in DOMAIN heap : q[1] = "topo"} |-> heap[r]]
           c == DeepCopyList(h0, stations_data)
           b == BuildStations([heap |-> c.heap, stations |-> <<>>], stations_data, 1)
       IN  /\ heap' = b.heap
           /\ initial_state' = c.refs
           /\ stations' = b.stations
    /\ demand_curve' = DictGet(config, "demand_curve_hourly", <<>>)
    /\ charge_time' = DictGet(config, "avg_charge_time_minutes", DEFAULT_CHARGE_TIME)
    /\ demand_mod' = ROne
    /\ interventions' = <<>>
    /\ request' = <<>>
    /\ reshaped' = FALSE
    /\ pc' = "ready"
    /\ UNCHANGED <<stations_data, config, minute, station_idx, report, draws,
                   prev, replay, last, caller, twin,
                   threads>>

\* run_simulation(request), lines 93-99: reset, then the static interventions.
\* With again, the caller repeats the previous run's request and the random
\* draws come out as they did then.
RunStart(req, again) ==
    /\ pc \in {"ready", "done", "failed"}
    /\ again => (prev # <<>> /\ prev[1].interventions = req)
    /\ LET placed == PlaceInterventions(WithoutKind(heap, "data"), req)
           b == ResetStations(placed.heap, stations, initial_state)
           a == _apply_static_interventions(b.heap, b.stations, placed.list,
                                            Len(initial_state))
       IN  /\ heap' = a.heap
           /\ stations' = a.stations
           /\ interventions' = placed.list
           /\ pc' = IF a.ok THEN "loop" ELSE "failed"
    /\ demand_mod' = ROne
    /\ minute' = 0
    /\ station_idx' = 0
    /\ draws' = <<>>
    /\ replay' = IF ~again THEN "no"
                 ELSE IF pc = "ready" THEN "fresh_instance" ELSE "same_instance"
    /\ request' = req
    /\ prev' = IF again THEN prev ELSE <<>>
    /\ report' = <<>>
    /\ last' = <<>>
    /\ UNCHANGED <<stations_data, config, initial_state, demand_curve, charge_time,
                   reshaped, caller, twin,
                   threads>>

\* Lines 105-109: the head of the minute loop.
BeginMinute ==
    /\ pc = "loop"
    /\ minute < minutes_total
    /\ demand_mod' = _get_current_demand_modifier(Rat(minute, MINUTES_PER_HOUR),
                                                  interventions)
    /\ IF stations = <<>>
       THEN /\ minute' = minute + 1
            /\ UNCHANGED <<pc, station_idx>>
       ELSE /\ pc' = "stations"
            /\ station_idx' = 1
            /\ UNCHANGED minute
    /\ UNCHANGED <<heap, stations_data, config, initial_state, stations, demand_curve,
                   charge_time, interventions, report, draws, prev, replay, last,
                   request, reshaped, caller, twin,
                   threads>>

\* Lines 111-112 and 147-211: the step of the next station of the minute.
StationStep(arrived) ==
    /\ pc = "stations"
    /\ LET entry == stations[station_idx]
           hour == Rat(minute, MINUTES_PER_HOUR)
           arrival_prob == RMul(_get_arrival_probability(demand_curve, hour), demand_mod)
           step == _simulate_station_step(heap[entry[2]], arrived, charge_time)
       IN  /\ arrived \in ArrivalOutcomes(arrival_prob)
           /\ (replay # "no" /\ Len(draws) < Len(prev[1].draws)) =>
                  arrived = prev[1].draws[Len(draws) + 1]
           /\ heap' = [heap EXCEPT ![entry[2]] = step.after]
           /\ last' = <<[sid |-> entry[1], minute |-> minute,
                          demand_mod |-> demand_mod, step |-> step]>>
    /\ draws' = Append(draws, arrived)
    /\ IF station_idx = Len(stations)
       THEN /\ minute' = minute + 1
            /\ pc' = "loop"
            /\ UNCHANGED station_idx
       ELSE /\ station_idx' = station_idx + 1
            /\ UNCHANGED <<minute, pc>>
    /\ UNCHANGED <<stations_data, config, initial_state, stations, demand_curve,
                   charge_time, interventions, demand_mod, report, prev, replay,
                   request, reshaped, caller, twin,
                   threads>>

\* Lines 114-115: the loop is over, the report is returned.
Finish ==
    /\ pc = "loop"
    /\ minute = minutes_total
    /\ report' = <<_generate_report(heap, stations, minutes_total)>>
    /\ pc' = "done"
    /\ prev' = IF replay # "no" THEN prev
               ELSE <<[interventions |-> ReadInterventions(heap, interventions),
                       draws |-> draws, report |-> report'[1]]>>
    /\ reshaped' = (reshaped \/ \E k \in 1..Len(interventions) :
                                     interventions[k]["type"] \in StructuralTypes)
    /\ UNCHANGED <<heap, stations_data, config, initial_state, stations, demand_curve,
                   charge_time, interventions, minute, station_idx, demand_mod,
                   draws, replay, last, request, caller, twin,
                   threads>>

Next ==
    \/ Construct
    \/ \E req \in caller.requests, again \in BOOLEAN : RunStart(req, again)
    \/ BeginMinute
    \/ \E arrived \in BOOLEAN : StationStep(arrived)
    \/ Finish

Spec == Init /\ [][Next]_vars

\* Scheduling.  run_simulation is one sequential call: once entered, its loops
\* go on to the return statement without waiting for anything, so each step of
\* a run that can be taken is taken.  The caller is under no obligation to
\* construct a simulator or to start a run.  A station step is enabled whenever
\* pc = "stations" and always moves the position of the loops; its fairness
\* is stated on that position.
position == <<pc, minute, station_idx>>
StationStepTaken ==
    /\ pc = "stations"
    /\ pc' \in {"loop", "stations"}
    /\ minute' \in {minute, minute + 1}
    /\ station_idx' \in {station_idx, station_idx + 1}
Fairness ==
    /\ WF_vars(BeginMinute)
    /\ WF_position(StationStepTaken)
    /\ WF_vars(Finish)

FairSpec == Spec /\ Fairness

----------------------------------------------------------------------------
(* The demand modifier of any minute of the day.  A simulator without stations
   is in its minute loop, at any minute of the 24 hours, and evaluates lines
   106-109 for that minute. *)

InitDemand ==
    /\ caller = [stations_data |-> <<>>, config |-> ConfigAbsent,
                 requests |-> DemandRequests]
    /\ heap = <<>>
    /\ stations_data = <<>>
    /\ config = ConfigAbsent
    /\ initial_state = <<>>
    /\ stations = <<>>
    /\ demand_curve = <<>>
    /\ charge_time = DEFAULT_CHARGE_TIME
    /\ interventions \in DemandRequests
    /\ request = interventions
    /\ minute \in DayMinutes
    /\ station_idx = 0
    /\ demand_mod = ROne
    /\ pc = "minute"
    /\ report = <<>>
    /\ draws = <<>>
    /\ prev = <<>>
    /\ replay = "no"
    /\ reshaped = FALSE
    /\ last = <<>>
    /\ twin = <<>>
    /\ threads = <<>>

\* Lines 106-109 for the minute at hand.
CurrentDemand ==
    /\ pc = "minute"
    /\ demand_mod' = _get_current_demand_modifier(Rat(minute, MINUTES_PER_HOUR),
                                                  interventions)
    /\ pc' = "modified"
    /\ UNCHANGED <<heap, stations_data, config, initial_state, stations, demand_curve,
                   charge_time, interventions, minute, station_idx, report, draws,
                   prev, replay, last, request, reshaped, caller, twin,
                   threads>>

NextDemand == CurrentDemand

DemandSpec == InitDemand /\ [][NextDemand]_vars

----------------------------------------------------------------------------
(* One station step on any station state.  The simulator holds one station,
   in any state of ready batteries, queue, chargers and batteries on charge,
   and the minute loop applies _simulate_station_step to it. *)

\* The lists inventory_charging can be: remaining minutes from 1 to the
\* configured charge time, in the order the batteries were appended.
ChargingLists ==
    UNION {[1..n -> 1..ConfigPeak["avg_charge_time_minutes"]] : n \in 0..MaxCharging}

StationStates ==
    {[id |-> "S1", total_slots |-> slots, chargers |-> chargers,
      initial_inventory |-> DEFAULT_INITIAL_INVENTORY,
      inventory_ready |-> ready, inventory_charging |-> charging,
      queue_length |-> queue, metrics |-> ZeroMetrics] :
        slots \in {1, DEFAULT_TOTAL_SLOTS}, chargers \in 0..MaxChargers,
        ready \in 0..MaxReady, charging \in ChargingLists, queue \in 0..MaxQueue}

InitStep ==
    /\ caller = [stations_data |-> <<>>, config |-> ConfigPeak, requests |-> {<<>>}]
    /\ \E st \in StationStates : heap = (<<"st", 1>> :> st)
    /\ stations = << <<"S1", <<"st", 1>>>> >>
    /\ stations_data = <<>>
    /\ config = ConfigPeak
    /\ initial_state = <<>>
    /\ demand_curve = ConfigPeak["demand_curve_hourly"]
    /\ charge_time = ConfigPeak["avg_charge_time_minutes"]
    /\ interventions = <<>>
    /\ request = <<>>
    /\ minute = 0
    /\ station_idx = 1
    /\ demand_mod = ROne
    /\ pc = "stations"
    /\ report = <<>>
    /\ draws = <<>>
    /\ prev = <<>>
    /\ replay = "no"
    /\ reshaped = FALSE
    /\ last = <<>>
    /\ twin = <<>>
    /\ threads = <<>>

NextStep == \E arrived \in BOOLEAN : StationStep(arrived)

SpecStep == InitStep /\ [][NextStep]_vars

----------------------------------------------------------------------------
(* Two runs side by side.  The scenario scripts run one topology under two
   intervention lists and compare the reports.  Here the two simulators, each
   constructed from the topology and past its reset and static interventions,
   advance together, station step by station step.  Both draw the same random
   number at the same step, as two runs seeded alike do: a run calls
   random.random() once per station and minute, in the order of the loops,
   whatever the outcome. *)

\* A calibrated configuration: peak demand all day, 4-minute charge.
ConfigSlow == [avg_charge_time_minutes |-> 4, demand_curve_hourly |-> Curve(Rat(1, 1))]

Lone == [id |-> "S1", chargers |-> 0, initial_inventory |-> 1]
Single == [id |-> "S1", chargers |-> 1, initial_inventory |-> 1]

\* The scripts' surge, factor 1.5 up to hour 22; its window opens at minute 2
\* (1/30 hour) of the run, in place of hour 8.
Surge == ShiftDemandIn(Rat(3, 2), Rat(1, 30), Whole(22))
\* The scripts' mitigation: 30 chargers.
Upgrade == ModifyChargers("S1", 30)

\* Baseline against surge, and surge against surge with the upgrade.
Comparisons ==
    { [stations_data |-> <<data>>, config |-> cfg, first |-> pair[1], second |-> pair[2]] :
          data \in {Lone, Single}, cfg \in {ConfigPeak, ConfigSlow},
          pair \in { <<<<>>, <<Surge>>>>, <<<<Surge>>, <<Surge, Upgrade>>>> } }

\* The values (u < p, u < q) can take for one random number u in [0, 1).
CoupledOutcomes(p, q) ==
    {o \in BOOLEAN \X BOOLEAN :
        CASE o[1] /\ o[2] -> p[1] > 0 /\ q[1] > 0
          [] ~o[1] /\ ~o[2] -> p[1] < p[2] /\ q[1] < q[2]
          [] o[1] /\ ~o[2] -> RLess(q, p) /\ q[1] < q[2]
          [] ~o[1] /\ o[2] -> RLess(p, q) /\ p[1] < p[2]}

\* CityDigitalTwin(stations_data) and the head of run_simulation(req), lines
\* 33-46 and 93-99, from the heap h0 that holds the topology.
Started(h0, refs, req) ==
    LET c == DeepCopyList(h0, refs)
        placed == PlaceInterventions(c.heap, req)
        b == ResetStations(placed.heap, <<>>, c.refs)
        a == _apply_static_interventions(b.heap, b.stations, placed.list, Len(c.refs))
    IN  [heap |-> a.heap, stations |-> a.stations, interventions |-> placed.list,
         initial_state |-> c.refs]

InitPair ==
    \E cmp \in Comparisons :
        LET h0 == [r \in {<<"topo", i>> : i \in 1..Len(cmp.stations_data)} |->
                      cmp.stations_data[r[2]]]
            refs == [i \in 1..Len(cmp.stations_data) |-> <<"topo", i>>]
            one == Started(h0, refs, cmp.first)
            two == Started(h0, refs, cmp.second)
        IN  /\ caller = [stations_data |-> cmp.stations_data, config |-> cmp.config,
                         requests |-> {cmp.first, cmp.second}]
            /\ stations_data = refs
            /\ config = cmp.config
            /\ twin = <<[heap |-> one.heap, stations |-> one.stations,
                         interventions |-> one.interventions, request |-> cmp.first,
                         demand_mod |-> ROne, arrived |-> FALSE,
                         report |-> <<>>]>>
            /\ heap = two.heap
            /\ stations = two.stations
            /\ interventions = two.interventions
            /\ initial_state = two.initial_state
            /\ request = cmp.second
            /\ demand_curve = DictGet(cmp.config, "demand_curve_hourly", <<>>)
            /\ charge_time = DictGet(cmp.config, "avg_charge_time_minutes",
                                     DEFAULT_CHARGE_TIME)
            /\ minute = 0
            /\ station_idx = 0
            /\ demand_mod = ROne
            /\ pc = "loop"
            /\ report = <<>>
            /\ draws = <<>>
            /\ prev = <<>>
            /\ replay = "no"
            /\ reshaped = FALSE
            /\ last = <<>>
            /\ threads = <<>>

\* Lines 105-109 in both runs.
PairBeginMinute ==
    /\ pc = "loop"
    /\ minute < PairMinutes
    /\ demand_mod' = _get_current_demand_modifier(Rat(minute, MINUTES_PER_HOUR),
                                                  interventions)
    /\ twin' = <<[twin[1] EXCEPT !.demand_mod =
                     _get_current_demand_modifier(Rat(minute, MINUTES_PER_HOUR),
                                                  twin[1].interventions)]>>
    /\ pc' = "stations"
    /\ station_idx' = 1
    /\ UNCHANGED <<heap, stations_data, config, initial_state, stations, demand_curve,
                   charge_time, interventions, minute, report, draws, prev, replay,
                   last, request, reshaped, caller,
                   threads>>

\* Lines 111-112 and 147-211 in both runs: the step of the next station, the
\* twin's arrival and this run's decided by the same random number.
PairStep(other, arrived) ==
    /\ pc = "stations"
    /\ LET entry == stations[station_idx]
           twin_entry == twin[1].stations[station_idx]
           hour == Rat(minute, MINUTES_PER_HOUR)
           base == _get_arrival_probability(demand_curve, hour)
           step == _simulate_station_step(heap[entry[2]], arrived, charge_time)
           twin_step == _simulate_station_step(twin[1].heap[twin_entry[2]], other,
                                               charge_time)
       IN  /\ <<other, arrived>> \in CoupledOutcomes(RMul(base, twin[1].demand_mod),
                                                     RMul(base, demand_mod))
           /\ heap' = [heap EXCEPT ![entry[2]] = step.after]
           /\ twin' = <<[twin[1] EXCEPT !.heap[twin_entry[2]] = twin_step.after,
                                        !.arrived = other]>>
           /\ last' = <<[sid |-> entry[1], minute |-> minute,
                          demand_mod |-> demand_mod, step |-> step]>>
    /\ IF station_idx = Len(stations)
       THEN /\ minute' = minute + 1
            /\ pc' = "loop"
            /\ UNCHANGED station_idx
       ELSE /\ station_idx' = station_idx + 1
            /\ UNCHANGED <<minute, pc>>
    /\ UNCHANGED <<stations_data, config, initial_state, stations, demand_curve,
                   charge_time, interventions, demand_mod, report, draws, prev,
                   replay, request, reshaped, caller,
                   threads>>

\* Lines 114-115 in both runs.
PairFinish ==
    /\ pc = "loop"
    /\ minute = PairMinutes
    /\ report' = <<_generate_report(heap, stations, PairMinutes)>>
    /\ twin' = <<[twin[1] EXCEPT !.report =
                     <<_generate_report(twin[1].heap, twin[1].stations, PairMinutes)>>]>>
    /\ pc' = "done"
    /\ UNCHANGED <<heap, stations_data, config, initial_state, stations, demand_curve,
                   charge_time, interventions, minute, station_idx, demand_mod,
                   draws, prev, replay, last, request, reshaped, caller,
                   threads>>

NextPair ==
    \/ PairBeginMinute
    \/ \E other, arrived \in BOOLEAN : PairStep(other, arrived)
    \/ PairFinish

PairSpec == InitPair /\ [][NextPair]_vars

----------------------------------------------------------------------------
(* POST /api/simulation/run (main.py), two requests served at the same time *)

\* The endpoint is a plain def, which the framework runs on worker threads:
\* two requests run side by side in one process.  heap holds the objects both
\* can reach, the dicts of MOCK_STATIONS; every object a request allocates
\* (the deep copies, the station dicts, the dicts of its body) is new, so it
\* is kept in the record of the request.  A step of a request works on the
\* two together and writes back whatever it changed of either.

\* One station of mock_data.py: of the keys the simulator reads it has the id
\* only, the rest is defaulted.
MockStation == [id |-> "S1"]
MOCK_STATIONS == <<MockStation>>

\* Bodies of the requests: no intervention, the chargers taken away, a second
\* station under a demand that makes every arrival certain.
ServeRequests ==
    { <<>>,
      <<ModifyChargers("S1", 0)>>,
      <<AddStation(Relief), ShiftDemand(Rat(5, 2))>> }

Workers == 1..2

NoObjects == [r \in {} |-> <<>>]
NewRequest ==
    [pc |-> "new", heap |-> NoObjects, initial_state |-> <<>>, stations |-> <<>>,
     demand_curve |-> <<>>, charge_time |-> 0, interventions |-> <<>>,
     request |-> <<>>, minute |-> 0, station_idx |-> 0, demand_mod |-> ROne,
     draws |-> <<>>, beside |-> FALSE, report |-> <<>>]

\* What the thread t can reach: its own objects and the shared ones.
Reach(t) == threads[t].heap @@ heap
SharedOf(h) == [r \in {q \in DOMAIN h : q[1] = "topo"} |-> h[r]]
OwnOf(h) == WithoutKind(h, "topo")

InitServe ==
    /\ caller = [stations_data |-> MOCK_STATIONS, config |-> ConfigPeak,
                 requests |-> ServeRequests]
    /\ heap = [r \in {<<"topo", i>> : i \in 1..Len(MOCK_STATIONS)} |-> MOCK_STATIONS[r[2]]]
    /\ stations_data = [i \in 1..Len(MOCK_STATIONS) |-> <<"topo", i>>]
    /\ config = ConfigPeak
    /\ threads = [t \in Workers |-> NewRequest]
    /\ initial_state = <<>>
    /\ stations = <<>>
    /\ demand_curve = <<>>
    /\ charge_time = 0
    /\ interventions = <<>>
    /\ minute = 0
    /\ station_idx = 0
    /\ demand_mod = ROne
    /\ pc = "new"
    /\ report = <<>>
    /\ draws = <<>>
    /\ prev = <<>>
    /\ replay = "no"
    /\ request = <<>>
    /\ reshaped = FALSE
    /\ last = <<>>
    /\ twin = <<>>

ServeFrame ==
    UNCHANGED <<stations_data, config, initial_state, stations, demand_curve,
                charge_time, interventions, minute, station_idx, demand_mod, pc,
                report, draws, prev, replay, request, reshaped, caller, twin, last>>

\* main.py line 145: city_sim = CityDigitalTwin(MOCK_STATIONS), lines 33-36 of
\* the simulator: the deep copy and the station dicts.  The constructor then
\* stands before line 39, whose file reads let the other thread run.
ServeConstruct(t) ==
    /\ threads[t].pc = "new"
    /\ LET c == DeepCopyList(Reach(t), stations_data)
           b == BuildStations([heap |-> c.heap, stations |-> <<>>], stations_data, 1)
       IN  /\ heap' = SharedOf(b.heap)
           /\ threads' = [threads EXCEPT ![t] =
                  [@ EXCEPT !.heap = OwnOf(b.heap),
                            !.initial_state = c.refs,
                            !.stations = b.stations,
                            !.pc = "config"]]
    /\ ServeFrame

\* Lines 39-46: the configuration file is read (lines 50-57) and the charge
\* time and the demand curve are taken from it; the constructor returns.
ServeLoadConfig(t) ==
    /\ threads[t].pc = "config"
    /\ threads' = [threads EXCEPT ![t] =
           [@ EXCEPT !.demand_curve = DictGet(config, "demand_curve_hourly", <<>>),
                     !.charge_time = DictGet(config, "avg_charge_time_minutes",
                                             DEFAULT_CHARGE_TIME),
                     !.pc = "ready"]]
    /\ UNCHANGED heap
    /\ ServeFrame

\* main.py lines 148-151: the body's interventions as dicts, then
\* run_simulation up to the loop, lines 93-99.
ServeRunStart(t, req) ==
    /\ threads[t].pc = "ready"
    /\ LET placed == PlaceInterventions(WithoutKind(Reach(t), "data"), req)
           b == ResetStations(placed.heap, threads[t].stations, threads[t].initial_state)
           a == _apply_static_interventions(b.heap, b.stations, placed.list,
                                            Len(threads[t].initial_state))
       IN  /\ heap' = SharedOf(a.heap)
           /\ threads' = [threads EXCEPT ![t] =
                  [@ EXCEPT !.heap = OwnOf(a.heap),
                            !.stations = a.stations,
                            !.interventions = placed.list,
                            !.request = req,
                            !.minute = 0,
                            !.station_idx = 0,
                            !.demand_mod = ROne,
                            !.pc = IF a.ok THEN "loop" ELSE "failed"]]
    /\ ServeFrame

\* Lines 105-109 in the thread t.
ServeBeginMinute(t) ==
    /\ threads[t].pc = "loop"
    /\ threads[t].minute < ServeMinutes
    /\ LET th == threads[t]
           mod == _get_current_demand_modifier(Rat(th.minute, MINUTES_PER_HOUR),
                                               th.interventions)
       IN  threads' = [threads EXCEPT ![t] =
               IF th.stations = <<>>
               THEN [@ EXCEPT !.demand_mod = mod, !.minute = th.minute + 1]
               ELSE [@ EXCEPT !.demand_mod = mod, !.pc = "stations", !.station_idx = 1]]
    /\ UNCHANGED heap
    /\ ServeFrame

\* Lines 111-112 and 147-211 in the thread t; beside records that the other
\* request was inside its loop when this step was taken.
ServeStationStep(t, arrived) ==
    /\ threads[t].pc = "stations"
    /\ LET th == threads[t]
           entry == th.stations[th.station_idx]
           hour == Rat(th.minute, MINUTES_PER_HOUR)
           arrival_prob == RMul(_get_arrival_probability(th.demand_curve, hour),
                                th.demand_mod)
           step == _simulate_station_step(Reach(t)[entry[2]], arrived, th.charge_time)
           h == [Reach(t) EXCEPT ![entry[2]] = step.after]
           at_end == th.station_idx = Len(th.stations)
       IN  /\ arrived \in ArrivalOutcomes(arrival_prob)
           /\ heap' = SharedOf(h)
           /\ threads' = [threads EXCEPT ![t] =
                  [@ EXCEPT !.heap = OwnOf(h),
                            !.draws = Append(th.draws, arrived),
                            !.beside = th.beside
                                \/ \E u \in Workers \ {t} :
                                       /\ threads[u].pc \in {"loop", "stations"}
                                       /\ threads[u].draws # <<>>,
                            !.minute = IF at_end THEN th.minute + 1 ELSE th.minute,
                            !.pc = IF at_end THEN "loop" ELSE "stations",
                            !.station_idx = IF at_end THEN th.station_idx
                                            ELSE th.station_idx + 1]]
    /\ ServeFrame

\* Lines 114-115 and main.py line 153: the report is the response.
ServeFinish(t) ==
    /\ threads[t].pc = "loop"
    /\ threads[t].minute = ServeMinutes
    /\ threads' = [threads EXCEPT ![t] =
           [@ EXCEPT !.report = <<_generate_report(Reach(t), threads[t].stations,
                                                   ServeMinutes)>>,
                     !.pc = "done"]]
    /\ UNCHANGED heap
    /\ ServeFrame

NextServe ==
    \E t \in Workers :
        \/ ServeConstruct(t)
        \/ ServeLoadConfig(t)
        \/ \E req \in ServeRequests : ServeRunStart(t, req)
        \/ ServeBeginMinute(t)
        \/ \E arrived \in BOOLEAN : ServeStationStep(t, arrived)
        \/ ServeFinish(t)

ServeSpec == InitServe /\ [][NextServe]_vars

----------------------------------------------------------------------------
(* The arrival probability of any minute.  A simulator with a configured
   demand curve evaluates _get_arrival_probability (the first factor of line
   180) for a station and a minute, of the day of the run or of a later day. *)

\* process_simulation_data.py, line 52: round(count / max_val, 3) in
\* thousandths.  The counts are numpy integers, so the quotient is a numpy
\* double and its round() scales it by 1000, takes the nearest integer (ties
\* to even) and divides by 1000.
Round3(count, max_val) ==
    IF count = 0 THEN 0
    ELSE RoundFloat[FloatTimes[FloatDiv(count, max_val), 1000], 1]

\* Lines 18 and 46-54: demand_curve_hourly.  hourly_counts holds the hours
\* that have a swap; a log without any swap leaves it empty, and the default
\* of line 18 stays.  Otherwise the counts are normalised to the peak hour, an
\* hour without swaps counting 0.
Profile(hourly_counts) ==
    LET empty == \A h \in 1..HOURS_PER_DAY : hourly_counts[h] = 0
        max_val == CHOOSE v \in {hourly_counts[h] : h \in 1..HOURS_PER_DAY} :
                       \A h \in 1..HOURS_PER_DAY : hourly_counts[h] <= v
    IN  IF empty THEN Curve(Rat(1, 20))
        ELSE [h \in 1..HOURS_PER_DAY |->
                 IF max_val > 0 THEN Rat(Round3(hourly_counts[h], max_val), 1000)
                 ELSE Rat(0, 1)]

\* The profile of a log with h swaps in hour h, which rises from 0.0 over
\* 0.043, 0.087, 0.13, ... to 1.0; that script's default of 0.05 throughout;
\* and the peak value throughout.
RisingCounts == [i \in 1..HOURS_PER_DAY |-> i - 1]
Ramp == Profile(RisingCounts)
ArrivalCurves == {Ramp, Curve(Rat(1, 20)), Curve(Rat(1, 1))}

InitArrival ==
    /\ \E curve \in ArrivalCurves :
           /\ config = [avg_charge_time_minutes |-> DEFAULT_CHARGE_TIME,
                        demand_curve_hourly |-> curve]
           /\ demand_curve = curve
           /\ caller = [stations_data |-> <<Scarce, Plain>>, config |-> config,
                        requests |-> {<<>>}]
    /\ heap = (<<"st", 1>> :> InitialisedState(Scarce)) @@ (<<"st", 2>> :> InitialisedState(Plain))
    /\ stations = << <<"S1", <<"st", 1>>>>, <<"S2", <<"st", 2>>>> >>
    /\ stations_data = <<>>
    /\ initial_state = <<>>
    /\ charge_time = DEFAULT_CHARGE_TIME
    /\ interventions = <<>>
    /\ request = <<>>
    /\ minute \in 0..(MaxDays * HOURS_PER_DAY * MINUTES_PER_HOUR - 1)
    /\ station_idx \in 1..2
    /\ demand_mod = ROne
    /\ pc = "minute"
    /\ report = <<>>
    /\ draws = <<>>
    /\ prev = <<>>
    /\ replay = "no"
    /\ reshaped = FALSE
    /\ last = <<>>
    /\ twin = <<>>
    /\ threads = <<>>

\* Line 180, first factor: self._get_arrival_probability(station, hour) for
\* the station and the minute at hand.
ArrivalProbability ==
    /\ pc = "minute"
    /\ last' = <<[sid |-> stations[station_idx][1], minute |-> minute,
                   arrival_prob |-> _get_arrival_probability(
                                        demand_curve, Rat(minute, MINUTES_PER_HOUR))]>>
    /\ pc' = "arrival"
    /\ UNCHANGED <<heap, stations_data, config, initial_state, stations, demand_curve,
                   charge_time, interventions, minute, station_idx, demand_mod,
                   report, draws, prev, replay, request, reshaped, caller, twin,
                   threads>>

NextArrival == ArrivalProbability

ArrivalSpec == InitArrival /\ [][NextArrival]_vars

----------------------------------------------------------------------------
(* Properties *)

Step == last[1].step
SumSeq(q) == LET RECURSIVE Sum(_)
                 Sum(i) == IF i = 0 THEN 0 ELSE q[i] + Sum(i - 1)
             IN  Sum(Len(q))
Max(S) == CHOOSE x \in S : \A y \in S : y <= x

\* The station dicts self.stations refers to.
StationDicts == {heap[stations[i][2]] : i \in 1..Len(stations)}
StationOf(sid) == heap[Lookup(stations, sid)]

\* A run is between its reset and its report.
Running == pc \in {"loop", "stations"}
\* The run has applied its static interventions and simulated no minute yet.
AtRunStart == pc = "loop" /\ minute = 0 /\ draws = <<>>

\* The state the specification gives a station made from `data`.
FreshFrom(data) ==
    [id |-> data["id"],
     total_slots |-> IF "total_slots" \in DOMAIN data THEN data["total_slots"] ELSE 15,
     chargers |-> IF "chargers" \in DOMAIN data THEN data["chargers"] ELSE 12,
     initial_inventory |->
         IF "initial_inventory" \in DOMAIN data THEN data["initial_inventory"] ELSE 10,
     inventory_ready |->
         IF "initial_inventory" \in DOMAIN data THEN data["initial_inventory"] ELSE 10,
     inventory_charging |-> <<>>,
     queue_length |-> 0,
     metrics |-> [total_swaps_fulfilled |-> 0, lost_swaps |-> 0,
                  total_wait_time_minutes |-> 0, idle_inventory_minutes |-> 0,
                  charger_utilization_minutes |-> 0]]

\* The topology the caller constructed the simulator from, and the station
\* map a run starts from when it has no intervention.
Topology == caller.stations_data
TopologyIds == {Topology[i]["id"] : i \in 1..Len(Topology)}
TopologyOf(sid) == Topology[CHOOSE i \in 1..Len(Topology) : Topology[i]["id"] = sid]
BaselineMap == [i \in 1..Len(Topology) |-> <<Topology[i]["id"], FreshFrom(Topology[i])>>]

\* The station a structural intervention of the caller's list names.
TargetOf(action) ==
    IF action["type"] = "add_station"
    THEN (IF "data" \in DOMAIN action THEN action["data"]["id"] ELSE NoValue)
    ELSE DictGet(action, "station_id", NoValue)
\* The positions of `req` whose intervention has one of `types` and names sid.
Naming(req, sid, types) ==
    {k \in 1..Len(req) : req[k]["type"] \in types /\ TargetOf(req[k]) = sid}
MentionedIds(req) ==
    {TargetOf(req[k]) : k \in {j \in 1..Len(req) : req[j]["type"] \in StructuralTypes}}

\* What a list applied once, in order, leaves of station sid: whether it is
\* there, and its chargers.
LastPresence(req, sid) == Naming(req, sid, {"add_station", "remove_station"})
ExpectedPresent(req, sid) ==
    IF LastPresence(req, sid) = {} THEN sid \in TopologyIds
    ELSE req[Max(LastPresence(req, sid))]["type"] = "add_station"
ExpectedChargers(req, sid) ==
    LET from == IF LastPresence(req, sid) = {} THEN 0 ELSE Max(LastPresence(req, sid))
        later == {k \in Naming(req, sid, {"modify_chargers"}) : k > from}
    IN  IF later # {} THEN req[Max(later)]["count"]
        ELSE IF from = 0 THEN FreshFrom(TopologyOf(sid)).chargers
        ELSE FreshFrom(req[from]["data"]).chargers

----------------------------------------------------------------------------
\* C1: when an arrival occurs in a station step, it is counted as a lost swap
\* if and only if, after that minute's charging step and before the arrival is
\* processed, queue_length > 10 or (queue_length > 5 and inventory_ready = 0);
\* otherwise the vehicle joins the queue.
TurnedAway(st) ==
    st["queue_length"] > 10 \/ (st["queue_length"] > 5 /\ st["inventory_ready"] = 0)
C1_AdmissionPolicy ==
    (last # <<>> /\ Step.arrived) =>
        LET at == Step.charged
            lost == Step.queued["metrics"].lost_swaps - at["metrics"].lost_swaps
            joined == Step.queued["queue_length"] - at["queue_length"]
        IN  /\ (lost = 1) <=> TurnedAway(at)
            /\ TurnedAway(at) => (lost = 1 /\ joined = 0)
            /\ ~TurnedAway(at) => (lost = 0 /\ joined = 1)
\* An arrival was turned away (and, in the same run, earlier ones joined).
C1_Witness ==
    /\ last # <<>> /\ Step.arrived
    /\ Step.queued["metrics"].lost_swaps = Step.charged["metrics"].lost_swaps + 1
    /\ Step.charged["queue_length"] = 6

\* C2: for every station, at every minute of a run and between the sub-steps
\* of a minute, inventory_ready >= 0 and queue_length >= 0.
NonNegative(st) == st["inventory_ready"] >= 0 /\ st["queue_length"] >= 0
C2_NoNegativeCounts ==
    /\ \A st \in StationDicts : NonNegative(st)
    /\ last # <<>> =>
          /\ \A st \in {Step.before, Step.charged, Step.idled, Step.queued, Step.after} :
                 NonNegative(st)
          /\ \A i \in 1..Len(Step.service) : NonNegative(Step.service[i])
\* A step whose swaps took the last ready battery and emptied the queue.
C2_Witness ==
    /\ last # <<>>
    /\ Len(Step.service) > 1
    /\ Step.queued["inventory_ready"] > 0
    /\ Step.after["inventory_ready"] = 0
    /\ Step.after["queue_length"] = 0

\* C3: every fulfilled swap decrements inventory_ready by exactly 1, decrements
\* queue_length by exactly 1, increments total_swaps_fulfilled by exactly 1 and
\* appends exactly one entry to inventory_charging, whose remaining time is the
\* configured charge duration.
ConfiguredChargeTime ==
    IF "avg_charge_time_minutes" \in DOMAIN config
    THEN config["avg_charge_time_minutes"] ELSE 60
C3_SwapEffect ==
    last # <<>> =>
        \A i \in 1..(Len(Step.service) - 1) :
            LET a == Step.service[i]
                b == Step.service[i + 1]
            IN  /\ b["inventory_ready"] = a["inventory_ready"] - 1
                /\ b["queue_length"] = a["queue_length"] - 1
                /\ b["metrics"].total_swaps_fulfilled = a["metrics"].total_swaps_fulfilled + 1
                /\ b["inventory_charging"] =
                       Append(a["inventory_charging"], ConfiguredChargeTime)
\* A swap under a configured charge duration, with a battery charging already.
C3_Witness ==
    /\ last # <<>>
    /\ Len(Step.service) = 2
    /\ Step.service[1]["inventory_charging"] # <<>>
    /\ "avg_charge_time_minutes" \in DOMAIN config

\* C4: in any single minute and for any station, the number of
\* inventory_charging entries whose remaining time is decremented never
\* exceeds the station's chargers value.  Every entry is at least 1 and an
\* entry that reaches 0 leaves the list, so the entries decremented are as
\* many as the sum of the list drops by.
Progressed ==
    SumSeq(Step.before["inventory_charging"]) - SumSeq(Step.charged["inventory_charging"])
C4_ChargerCap ==
    last # <<>> =>
        /\ \A i \in 1..Len(Step.before["inventory_charging"]) :
               Step.before["inventory_charging"][i] >= 1
        /\ Progressed <= Step.before["chargers"]
\* More batteries charging than chargers, and every charger used.
C4_Witness ==
    /\ last # <<>>
    /\ Len(Step.before["inventory_charging"]) > Step.before["chargers"]
    /\ Step.before["chargers"] > 0
    /\ Progressed = Step.before["chargers"]

\* C5: two runs with the same topology, the same intervention list and the
\* same sequence of arrival draws produce identical reports, on a fresh
\* simulator instance or as successive calls on the same instance.
C5_SameInputsSameReport ==
    (pc = "done" /\ replay # "no") =>
        /\ request = prev[1].interventions
        /\ draws = prev[1].draws
        /\ report = <<prev[1].report>>
\* A repeated run on the same instance, with swaps and lost swaps reported.
C5_Witness ==
    /\ pc = "done" /\ replay = "same_instance"
    /\ report[1].total_swaps > 0
    /\ report[1].lost_swaps > 0
\* The same on a fresh instance.
C5_WitnessFresh ==
    /\ pc = "done" /\ replay = "fresh_instance"
    /\ report[1].total_swaps > 0
    /\ report[1].lost_swaps > 0

\* C6: every run_simulation call starts from station state rebuilt from the
\* constructor's topology: stations added, removed or re-configured by the
\* interventions of an earlier run, and queue, inventory, charging list or
\* metric values left by an earlier run, never appear in the starting state of
\* a later run on the same simulator instance.  Whatever ran before, a run
\* starts with every topology station this run's list does not name exactly as
\* made from the topology, every other station as made by this run's own
\* add_station (its chargers possibly set by this run's modify_chargers), and
\* no station missing that this run's list did not remove.
C6_RunStartsFromTopology ==
    AtRunStart =>
        /\ \A sid \in TopologyIds \ MentionedIds(request) :
               /\ sid \in Keys(stations)
               /\ StationOf(sid) = FreshFrom(TopologyOf(sid))
        /\ \A sid \in Keys(stations) :
               /\ sid \in TopologyIds \/ Naming(request, sid, {"add_station"}) # {}
               /\ LET made == IF Naming(request, sid, {"add_station"}) # {}
                              THEN FreshFrom(request[Max(Naming(request, sid,
                                                 {"add_station"}))]["data"])
                              ELSE FreshFrom(TopologyOf(sid))
                  IN  \/ StationOf(sid) = made
                      \/ /\ Naming(request, sid, {"modify_chargers"}) # {}
                         /\ StationOf(sid) =
                                [made EXCEPT !.chargers = StationOf(sid)["chargers"]]
        /\ request = <<>> => ReadStations(heap, stations) = BaselineMap
\* A run without interventions starts on a simulator whose earlier run had
\* changed the station map and completed.
C6_Witness ==
    /\ AtRunStart
    /\ reshaped
    /\ request = <<>>
    /\ ReadStations(heap, stations) = BaselineMap

\* C7: no sequence of constructor calls, run_simulation calls and
\* interventions changes the caller-supplied topology list, the simulator's
\* stored initial_state, or the data record of an add_station intervention.
C7_InputsUntouched ==
    /\ stations_data = [i \in 1..Len(Topology) |-> <<"topo", i>>]
    /\ \A i \in 1..Len(Topology) : heap[<<"topo", i>>] = Topology[i]
    /\ pc # "new" =>
          /\ initial_state = [i \in 1..Len(Topology) |-> <<"init", i>>]
          /\ \A i \in 1..Len(Topology) : heap[<<"init", i>>] = Topology[i]
    /\ Len(interventions) = Len(request)
    /\ \A k \in 1..Len(request) :
          "data" \in DOMAIN request[k] =>
              /\ interventions[k]["data"] = <<"data", k>>
              /\ heap[<<"data", k>>] = request[k]["data"]
\* A completed run that served swaps at a topology station and at a station
\* made from an add_station data record.
C7_Witness ==
    /\ pc = "done"
    /\ \E sid \in Keys(stations) \cap TopologyIds :
           StationOf(sid)["metrics"].total_swaps_fulfilled > 0
    /\ \E k \in 1..Len(request) :
           /\ request[k]["type"] = "add_station"
           /\ request[k]["data"]["id"] \in Keys(stations)
           /\ StationOf(request[k]["data"]["id"])["metrics"].total_swaps_fulfilled > 0

\* C8: for any station map and any station id, add_station for that id
\* immediately followed by remove_station of the same id, before the run
\* starts, leaves the station map identical to the one obtained by never
\* adding it.
AddThenRemove ==
    /\ Len(request) = 2
    /\ request[1]["type"] = "add_station" /\ "data" \in DOMAIN request[1]
    /\ request[2]["type"] = "remove_station"
    /\ DictGet(request[2], "station_id", NoValue) = request[1]["data"]["id"]
C8_AddRemoveIsIdentity ==
    (AtRunStart /\ AddThenRemove) => ReadStations(heap, stations) = BaselineMap
\* C8 as amended: the pair leaves the map as it was when the id was not in it;
\* when the id was in the map, the pair deletes the station that was there.
C8_AddRemoveOfNewIdIsIdentity ==
    (AtRunStart /\ AddThenRemove) =>
        LET sid == request[1]["data"]["id"]
        IN  ReadStations(heap, stations) = SelectSeq(BaselineMap, LAMBDA e : e[1] # sid)
\* The pair was applied for an id the map did not hold.
C8_Witness ==
    /\ AtRunStart /\ AddThenRemove
    /\ request[1]["data"]["id"] \notin TopologyIds
    /\ ReadStations(heap, stations) = BaselineMap

\* C9: structural interventions are applied exactly once, in list order,
\* before the first simulated minute: during the minute loop the set of
\* station ids and every station's chargers value never change.  From the
\* first minute to the report the station ids and the chargers are those the
\* list, read in order, leaves.
C9_StructureFixedDuringRun ==
    (Running \/ pc = "done") =>
        /\ Keys(stations) = {sid \in TopologyIds \cup MentionedIds(request) :
                                 ExpectedPresent(request, sid)}
        /\ \A sid \in Keys(stations) :
               StationOf(sid)["chargers"] = ExpectedChargers(request, sid)
\* In the minute loop, after swaps, under a list whose order matters
\* (modify_chargers, then add_station of the same id).
C9_Witness ==
    /\ pc = "stations" /\ minute > 1
    /\ \E k \in 1..Len(request) :
           /\ request[k]["type"] = "modify_chargers"
           /\ Naming(request, request[k]["station_id"], {"add_station"}) # {}
           /\ Max(Naming(request, request[k]["station_id"], {"add_station"})) > k
    /\ \E st \in StationDicts : Len(st["inventory_charging"]) > 0

\* C10: add_station inserts a freshly initialized state under the given id
\* (inventory_ready = initial_inventory, empty charging list, queue 0, zeroed
\* metrics, defaults total_slots = 15, chargers = 12, initial_inventory = 10
\* for missing fields); if the id already exists, the existing station's
\* state, including any earlier modify_chargers on it, is replaced.
C10_AddStationIsFresh ==
    AtRunStart =>
        \A k \in 1..Len(request) :
            (/\ request[k]["type"] = "add_station"
             /\ \A j \in (k + 1)..Len(request) :
                    ~(request[j]["type"] \in StructuralTypes
                      /\ TargetOf(request[j]) = request[k]["data"]["id"])) =>
                /\ request[k]["data"]["id"] \in Keys(stations)
                /\ StationOf(request[k]["data"]["id"]) = FreshFrom(request[k]["data"])
\* add_station for an id of the topology, after a modify_chargers on it; the
\* data record leaves total_slots and chargers to the defaults.
C10_Witness ==
    /\ AtRunStart
    /\ Len(request) = 2
    /\ request[1]["type"] = "modify_chargers"
    /\ request[2]["type"] = "add_station"
    /\ request[2]["data"]["id"] = request[1]["station_id"]
    /\ request[2]["data"]["id"] \in TopologyIds
    /\ "chargers" \notin DOMAIN request[2]["data"]
    /\ StationOf(request[2]["data"]["id"])["chargers"] = 12

\* C11: remove_station or modify_chargers naming a station id that is not in
\* the station map raises no error and leaves the station map (ids and all
\* station fields) unchanged; the run then proceeds normally, to a report on
\* the stations of the topology.
OnlyUnknownTargets ==
    /\ request # <<>>
    /\ \A k \in 1..Len(request) :
           /\ request[k]["type"] \in {"remove_station", "modify_chargers"}
           /\ TargetOf(request[k]) \notin TopologyIds
C11_UnknownIdIsNoOp ==
    OnlyUnknownTargets =>
        /\ pc # "failed"
        /\ AtRunStart => ReadStations(heap, stations) = BaselineMap
        /\ Running => Keys(stations) = TopologyIds
        /\ pc = "done" =>
               /\ report # <<>>
               /\ Keys(report[1].stations) = TopologyIds
\* A run under a remove_station and a modify_chargers of an unknown id has
\* completed, with swaps served.
C11_Witness ==
    /\ pc = "done" /\ OnlyUnknownTargets
    /\ \E k \in 1..Len(request) : request[k]["type"] = "remove_station"
    /\ \E k \in 1..Len(request) : request[k]["type"] = "modify_chargers"
    /\ report[1].total_swaps > 0

\* C12: run_simulation given an add_station intervention without a 'data'
\* field fails with an error before any minute is simulated and returns no
\* report; the error leaves run_simulation.
MissingData ==
    \E k \in 1..Len(request) :
        request[k]["type"] = "add_station" /\ "data" \notin DOMAIN request[k]
C12_MissingDataRaises ==
    MissingData =>
        /\ pc = "failed"
        /\ report = <<>>
        /\ minute = 0 /\ draws = <<>> /\ last = <<>>
\* run_simulation has raised on an add_station without data.
C12_Witness ==
    /\ MissingData
    /\ pc = "failed"
    /\ report = <<>>

\* The demand modifier as a product over the shift_demand interventions of a
\* list that InWindow(action, m) holds of, taken from the last to the first.
REq(a, b) == a[1] * b[2] = b[1] * a[2]
WindowOf(action) ==
    IF "window" \in DOMAIN action THEN action["window"] ELSE <<Rat(0, 1), Rat(24, 1)>>
FactorOf(action) == IF "factor" \in DOMAIN action THEN action["factor"] ELSE Rat(1, 1)
\* start <= floor(m / 60) < end
InWindowByFlooredHour(action, m) ==
    /\ RLeq(WindowOf(action)[1], Rat(m \div 60, 1))
    /\ RLess(Rat(m \div 60, 1), WindowOf(action)[2])
\* start <= m / 60 < end
InWindowByFractionalHour(action, m) ==
    /\ RLeq(WindowOf(action)[1], Rat(m, 60))
    /\ RLess(Rat(m, 60), WindowOf(action)[2])
ProductOfActive(req, m, InWindow(_, _)) ==
    LET RECURSIVE Prod(_)
        Prod(k) ==
            IF k > Len(req) THEN Rat(1, 1)
            ELSE IF req[k]["type"] = "shift_demand" /\ InWindow(req[k], m)
                 THEN RMul(Prod(k + 1), FactorOf(req[k]))
                 ELSE Prod(k + 1)
    IN  Prod(1)

\* C13: a shift_demand intervention with window [start, end) contributes its
\* factor to the demand modifier of simulated minute m if and only if
\* start <= floor(m/60) < end.
C13_WindowByFlooredHour ==
    pc = "modified" =>
        REq(demand_mod, ProductOfActive(request, minute, InWindowByFlooredHour))
\* C13 as amended: ... if and only if start <= m/60 < end, m/60 the fractional
\* hour; the same as the floored hour when start and end are whole hours.
C13_WindowByFractionalHour ==
    pc = "modified" =>
        REq(demand_mod, ProductOfActive(request, minute, InWindowByFractionalHour))
\* Half past an hour, inside a window that starts at that half hour: its
\* factor is in the modifier, the floored hour is before the window.
C13_Witness ==
    /\ pc = "modified"
    /\ Len(request) = 1
    /\ InWindowByFractionalHour(request[1], minute)
    /\ ~InWindowByFlooredHour(request[1], minute)
    /\ minute > 60
    /\ demand_mod = FactorOf(request[1])

\* C14: in every minute the demand modifier is recomputed from 1.0 as the
\* product of the factors of all shift_demand interventions active in that
\* minute (1.0 when none is active or the list is empty); it does not depend
\* on the order of the interventions or on earlier minutes, and the same value
\* is used for every station in that minute.  The modifier of the minute in
\* progress, and the one each station step was given, is the product over the
\* list read backwards, a function of the list and the minute alone.
C14_DemandModifierPerMinute ==
    /\ pc = "stations" =>
           REq(demand_mod, ProductOfActive(request, minute, InWindowByFractionalHour))
    /\ ((Running \/ pc = "done") /\ last # <<>>) =>
           REq(last[1].demand_mod,
               ProductOfActive(request, last[1].minute, InWindowByFractionalHour))
\* The second station of a minute was stepped under two active shift_demand
\* interventions, one of which was not active in the first minute.
C14_Witness ==
    /\ Running /\ last # <<>>
    /\ Len(stations) = 2 /\ last[1].sid = stations[2][1]
    /\ Len(request) = 2
    /\ \A k \in 1..2 :
           /\ request[k]["type"] = "shift_demand"
           /\ InWindowByFractionalHour(request[k], last[1].minute)
    /\ \E k \in 1..2 : ~InWindowByFractionalHour(request[k], 0)
    /\ REq(last[1].demand_mod, RMul(FactorOf(request[1]), FactorOf(request[2])))
    /\ ~REq(FactorOf(request[1]), FactorOf(request[2]))

\* C15: in any single minute a station performs at most 4 swaps, regardless
\* of its total_slots, chargers or inventory; service for the minute stops as
\* soon as inventory_ready is 0 with vehicles still queued, and no swap ever
\* happens with inventory_ready = 0 or queue_length = 0.
SwapsOfStep == Len(Step.service) - 1
C15_ServiceBounded ==
    last # <<>> =>
        LET served == Step.service[Len(Step.service)]
        IN  /\ SwapsOfStep <= 4
            /\ SwapsOfStep = Step.after["metrics"].total_swaps_fulfilled
                                - Step.before["metrics"].total_swaps_fulfilled
            /\ \A i \in 1..SwapsOfStep :
                   /\ Step.service[i]["inventory_ready"] > 0
                   /\ Step.service[i]["queue_length"] > 0
            /\ SwapsOfStep < 4 =>
                   (served["inventory_ready"] = 0 \/ served["queue_length"] = 0)
            /\ Step.after["inventory_ready"] = served["inventory_ready"]
            /\ Step.after["queue_length"] = served["queue_length"]
\* Four swaps in a minute that left vehicles queued and batteries ready.
C15_Witness ==
    /\ last # <<>>
    /\ SwapsOfStep = 4
    /\ Step.after["queue_length"] > 0
    /\ Step.after["inventory_ready"] > 0
    /\ Step.before["total_slots"] = 1

\* C16: at most one arrival is processed per station per minute: in the
\* arrival step exactly one of three things happens - nothing changes,
\* queue_length increases by 1 with lost_swaps unchanged, or lost_swaps
\* increases by 1 with queue_length unchanged (a lost arrival is counted but
\* not queued).  No other sub-step raises queue_length or lost_swaps.
C16_OneArrivalPerMinute ==
    last # <<>> =>
        LET a == Step.idled
            b == Step.queued
            same == b = a
            joined == b = [a EXCEPT !["queue_length"] = @ + 1]
            lost == b = [a EXCEPT !["metrics"].lost_swaps = @ + 1]
        IN  /\ same \/ joined \/ lost
            /\ same <=> ~Step.arrived
            /\ Step.idled["queue_length"] = Step.before["queue_length"]
            /\ Step.idled["metrics"].lost_swaps = Step.before["metrics"].lost_swaps
            /\ Step.after["queue_length"] <= b["queue_length"]
            /\ Step.after["metrics"].lost_swaps = b["metrics"].lost_swaps
\* An arrival turned away at a queue above 10 although batteries were ready:
\* counted, not queued.
C16_Witness ==
    /\ last # <<>> /\ Step.arrived
    /\ Step.idled["queue_length"] > 10 /\ Step.idled["inventory_ready"] > 0
    /\ Step.queued["metrics"].lost_swaps = Step.idled["metrics"].lost_swaps + 1
    /\ Step.queued["queue_length"] = Step.idled["queue_length"]

\* C17: for every station in every report, charger_utilization_pct lies
\* within [0, 100]; equivalently charger_utilization_minutes never exceeds
\* chargers x elapsed minutes at any minute of the run.  Percentages are in
\* tenths.
ElapsedMinutes(i) == IF pc = "stations" /\ i < station_idx THEN minute + 1 ELSE minute
C17_UtilizationBound ==
    /\ (Running \/ pc = "done") =>
           \A i \in 1..Len(stations) :
               LET st == heap[stations[i][2]]
               IN  /\ st["metrics"].charger_utilization_minutes >= 0
                   /\ st["metrics"].charger_utilization_minutes
                          <= st["chargers"] * ElapsedMinutes(i)
    /\ pc = "done" =>
           \A i \in 1..Len(report[1].stations) :
               /\ report[1].stations[i][2].charger_utilization_pct >= 0
               /\ report[1].stations[i][2].charger_utilization_pct <= 1000
\* A report on a station whose chargers were all busy in every minute but the
\* first, with more batteries on charge than chargers.
C17_Witness ==
    /\ pc = "done"
    /\ \E i \in 1..Len(stations) :
           LET st == heap[stations[i][2]]
           IN  /\ st["chargers"] > 0
               /\ Len(st["inventory_charging"]) > st["chargers"]
               /\ st["metrics"].charger_utilization_minutes
                      = st["chargers"] * (minutes_total - 1)
               /\ report[1].stations[i][2].charger_utilization_pct > 800

\* C18: in the report, total_swaps and lost_swaps equal the sums of the
\* per-station swaps and lost_swaps over exactly the stations present at the
\* end of the run, and the network avg_wait_time is the sum of all stations'
\* wait minutes divided by the sum of all stations' swaps (volume-weighted),
\* not the mean of the per-station averages.  avg_wait_time is in tenths: it
\* is the quotient rounded to the nearest tenth.
SumOver(F(_), n) ==
    LET RECURSIVE Sum(_)
        Sum(i) == IF i = 0 THEN 0 ELSE F(i) + Sum(i - 1)
    IN  Sum(n)
C18_NetworkTotals ==
    pc = "done" =>
        LET entries == report[1].stations
            n == Len(stations)
            SwapsAt(i) == heap[stations[i][2]]["metrics"].total_swaps_fulfilled
            LostAt(i) == heap[stations[i][2]]["metrics"].lost_swaps
            WaitAt(i) == heap[stations[i][2]]["metrics"].total_wait_time_minutes
            ReportedSwaps(i) == entries[i][2].swaps
            ReportedLost(i) == entries[i][2].lost_swaps
            swaps == SumOver(SwapsAt, n)
            wait == SumOver(WaitAt, n)
            avg == report[1].avg_wait_time
        IN  /\ [i \in 1..Len(entries) |-> entries[i][1]] = [i \in 1..n |-> stations[i][1]]
            /\ \A i \in 1..n : ReportedSwaps(i) = SwapsAt(i) /\ ReportedLost(i) = LostAt(i)
            /\ report[1].total_swaps = SumOver(ReportedSwaps, n)
            /\ report[1].lost_swaps = SumOver(ReportedLost, n)
            /\ swaps = 0 => avg = 0
            /\ swaps > 0 =>
                   /\ 2 * (avg * swaps - 10 * wait) <= swaps
                   /\ 2 * (10 * wait - avg * swaps) <= swaps
\* Two stations with swaps, whose volume-weighted average wait is not the
\* mean of their two averages.
C18_Witness ==
    /\ pc = "done"
    /\ Len(report[1].stations) = 2
    /\ \A i \in 1..2 : report[1].stations[i][2].swaps > 0
    /\ report[1].stations[1][2].swaps # report[1].stations[2][2].swaps
    /\ 2 * report[1].avg_wait_time #
           report[1].stations[1][2].avg_wait_time_min
             + report[1].stations[2][2].avg_wait_time_min

\* C19: report generation never fails on a zero denominator: with an empty
\* station set (empty topology or every station removed) the report has
\* total_swaps 0, lost_swaps 0, avg_wait_time 0 and no stations; a station
\* with zero swaps reports avg_wait_time_min 0; a station with chargers 0
\* reports charger_utilization_pct 0.
C19_ZeroDenominators ==
    /\ (pc = "loop" /\ minute = minutes_total) => ENABLED Finish
    /\ pc = "done" =>
           /\ report # <<>>
           /\ stations = <<>> =>
                  report[1] = [total_swaps |-> 0, lost_swaps |-> 0,
                               avg_wait_time |-> 0, stations |-> <<>>]
           /\ report[1].total_swaps = 0 => report[1].avg_wait_time = 0
           /\ \A i \in 1..Len(stations) :
                  LET st == heap[stations[i][2]]
                      entry == report[1].stations[i][2]
                  IN  /\ st["metrics"].total_swaps_fulfilled = 0 =>
                             entry.avg_wait_time_min = 0
                      /\ st["chargers"] = 0 => entry.charger_utilization_pct = 0
\* A report on a station without chargers that served no swap while vehicles
\* waited.
C19_Witness ==
    /\ pc = "done"
    /\ \E i \in 1..Len(stations) :
           LET st == heap[stations[i][2]]
           IN  /\ st["chargers"] = 0
               /\ st["metrics"].total_swaps_fulfilled = 0
               /\ st["metrics"].total_wait_time_minutes > 0
               /\ report[1].stations[i][2].avg_wait_time_min = 0
               /\ report[1].stations[i][2].charger_utilization_pct = 0
\* A report on an empty station set, every station of the topology removed.
C19_WitnessEmpty ==
    /\ pc = "done"
    /\ Topology # <<>> /\ stations = <<>>
    /\ report[1].stations = <<>>

\* C20: a station with initial_inventory = 0 and chargers = 0 under a
\* configured demand curve of all zeros ends the run with swaps = 0,
\* lost_swaps = 0, avg_wait_time_min = 0 and charger_utilization_pct = 0, and
\* its queue_length stays 0 in every minute.
ZeroCurve ==
    /\ "demand_curve_hourly" \in DOMAIN config
    /\ \A h \in 1..Len(config["demand_curve_hourly"]) :
           config["demand_curve_hourly"][h][1] = 0
C20_ZeroDemand ==
    (ZeroCurve /\ (Running \/ pc = "done")) =>
        \A i \in 1..Len(stations) :
            LET st == heap[stations[i][2]]
            IN  (st["initial_inventory"] = 0 /\ st["chargers"] = 0) =>
                    /\ st["queue_length"] = 0
                    /\ pc = "done" =>
                           report[1].stations[i][2] =
                               [swaps |-> 0, lost_swaps |-> 0, avg_wait_time_min |-> 0,
                                charger_utilization_pct |-> 0, idle_inventory_min |-> 0]
\* The report of such a station after a run of all the minutes, under a
\* shift_demand that multiplies the zero demand.
C20_Witness ==
    /\ pc = "done" /\ ZeroCurve
    /\ Len(draws) = minutes_total
    /\ request # <<>>
    /\ \E i \in 1..Len(stations) :
           /\ heap[stations[i][2]]["initial_inventory"] = 0
           /\ heap[stations[i][2]]["chargers"] = 0
           /\ report[1].stations[i][2].swaps = 0

----------------------------------------------------------------------------
\* C21: a run whose static interventions applied terminates: from its start
\* it leads to the report (Completed); the minutes are processed in increasing
\* order, one at a time, up to the horizon and no further (MaxMinutes stands for
\* the code's 1440); within a minute every station of self.stations is stepped
\* exactly once, in the order of the dict: the k-th step of a run is the step
\* of station ((k - 1) mod n) + 1 in minute (k - 1) div n; and the service loop
\* of a step leaves after at most 4 swaps.
StepsTaken ==
    minute * Len(stations) + (IF pc = "stations" THEN station_idx - 1 ELSE 0)
C21_RunTerminates ==
    /\ [](Running =>
            /\ minute \in 0..MaxMinutes
            /\ pc = "stations" => minute < MaxMinutes /\ station_idx \in 1..Len(stations)
            /\ Len(draws) = StepsTaken
            /\ draws # <<>> =>
                   /\ last[1].sid = stations[((Len(draws) - 1) % Len(stations)) + 1][1]
                   /\ last[1].minute = (Len(draws) - 1) \div Len(stations)
                   /\ Len(Step.service) - 1 <= SERVICE_BAYS)
    /\ [](pc = "done" => minute = MaxMinutes /\ Len(draws) = MaxMinutes * Len(stations))
    /\ [][Running /\ minute' # minute => Running' /\ minute' = minute + 1]_vars
    /\ [][Running => pc' \in {"loop", "stations", "done"}]_vars
    /\ (Running ~> pc = "done")
\* A run over two stations has returned its report after 2 * MaxMinutes steps.
C21_Witness ==
    /\ pc = "done"
    /\ Len(stations) = 2
    /\ Len(draws) = 2 * MaxMinutes
    /\ last[1].minute = MaxMinutes - 1
    /\ last[1].sid = stations[2][1]

----------------------------------------------------------------------------
\* C22: stations do not interact.  A station step rewrites the dict of the
\* station being stepped and no other object; and at every point of a run the
\* state of each station is what its own start state and its own arrival
\* outcomes give when _simulate_station_step is applied to that station alone,
\* whatever other stations the topology or the interventions put beside it and
\* wherever it stands in the order of the minute.
\* The arrival outcomes of the station at position i of self.stations.
DrawsOf(i) ==
    LET n == Len(stations)
        mine == {k \in 1..Len(draws) : (k - 1) % n = i - 1}
    IN  [j \in 1..Cardinality(mine) |-> draws[(j - 1) * n + i]]
\* The station as _init_station_state leaves it, its configuration kept.
Restarted(st) ==
    DictPut(DictPut(DictPut(DictPut(st, "inventory_ready", st["initial_inventory"]),
                            "inventory_charging", <<>>),
                    "queue_length", 0),
            "metrics", ZeroMetrics)
\* The station stepped alone through the outcomes ds.
RECURSIVE Alone(_, _, _)
Alone(st, ds, k) ==
    IF k = 0 THEN st
    ELSE _simulate_station_step(Alone(st, ds, k - 1), ds[k], charge_time).after
C22_StationsIndependent ==
    /\ []((Running \/ pc = "done") =>
             \A i \in 1..Len(stations) :
                 LET st == heap[stations[i][2]]
                 IN  st = Alone(Restarted(st), DrawsOf(i), Len(DrawsOf(i))))
    /\ [][pc = "stations" =>
             /\ DOMAIN heap' = DOMAIN heap
             /\ \A r \in DOMAIN heap \ {stations[station_idx][2]} : heap'[r] = heap[r]
             /\ stations' = stations]_vars
\* A run is over in which an intervention added a station beside S1, the two
\* stations had different arrival outcomes, and both made swaps.
C22_Witness ==
    /\ pc = "done"
    /\ Len(stations) = 2
    /\ \E k \in 1..Len(request) : request[k]["type"] = "add_station"
    /\ DrawsOf(1) # DrawsOf(2)
    /\ \A st \in StationDicts : st["metrics"]["total_swaps_fulfilled"] > 0
    /\ \E a, b \in StationDicts :
           a["metrics"]["total_wait_time_minutes"] > 0
           /\ b["metrics"]["total_wait_time_minutes"] = 0

----------------------------------------------------------------------------
\* C23: on one topology, a run under the surge (shift_demand, factor 1.5) and
\* a run without interventions, both fed the same random numbers: every
\* arrival of the baseline run is an arrival of the surge run, and the surge
\* run has lost at least as many swaps as the baseline run, at every step and
\* in the two reports.
LostSoFar(h, od) == SumSeq([i \in 1..Len(od) |-> h[od[i][2]]["metrics"]["lost_swaps"]])
SurgeComparison == twin # <<>> /\ twin[1].request = <<>> /\ request = <<Surge>>
C23_SurgeLosesNoLess ==
    SurgeComparison =>
        /\ last # <<>> /\ twin[1].arrived => Step.arrived
        /\ LostSoFar(heap, stations) >= LostSoFar(twin[1].heap, twin[1].stations)
        /\ pc = "done" => report[1]["lost_swaps"] >= twin[1].report[1]["lost_swaps"]
\* Both runs are over; the baseline run lost a swap and the surge run lost more.
C23_Witness ==
    /\ SurgeComparison
    /\ pc = "done"
    /\ twin[1].report[1]["lost_swaps"] >= 1
    /\ report[1]["lost_swaps"] > twin[1].report[1]["lost_swaps"]

----------------------------------------------------------------------------
\* C24: a run under the surge and a run under the surge with modify_chargers
\* raising the chargers of the station, both fed the same random numbers: the
\* arrivals are the same in both, and the run with the upgrade has lost at
\* most as many swaps as the run without, at every step and in the two
\* reports.
MitigationComparison ==
    twin # <<>> /\ twin[1].request = <<Surge>> /\ request = <<Surge, Upgrade>>
C24_UpgradeLosesNoMore ==
    MitigationComparison =>
        /\ \A i \in 1..Len(stations) :
               heap[stations[i][2]]["chargers"] > twin[1].heap[twin[1].stations[i][2]]["chargers"]
        /\ last # <<>> => Step.arrived = twin[1].arrived
        /\ LostSoFar(heap, stations) <= LostSoFar(twin[1].heap, twin[1].stations)
        /\ pc = "done" => report[1]["lost_swaps"] <= twin[1].report[1]["lost_swaps"]
\* Both runs are over; the surge run lost swaps at its station, the run with
\* the upgrade lost fewer.
C24_Witness ==
    /\ MitigationComparison
    /\ pc = "done"
    /\ twin[1].report[1]["lost_swaps"] >= 2
    /\ report[1]["lost_swaps"] < twin[1].report[1]["lost_swaps"]

----------------------------------------------------------------------------
\* C25: batteries are conserved per station.  From construction on, between
\* any two station steps (hence at every minute boundary), every station has
\* inventory_ready + len(inventory_charging) = initial_inventory, and so its
\* charging list holds at most initial_inventory entries.
Batteries(st) == st["inventory_ready"] + Len(st["inventory_charging"])
C25_BatteriesConserved ==
    \A st \in StationDicts :
        /\ Batteries(st) = st["initial_inventory"]
        /\ Len(st["inventory_charging"]) <= st["initial_inventory"]
\* A station of a run has both a ready battery and one on charge, after a
\* battery came back from charge and went out again.
C25_Witness ==
    /\ Running
    /\ \E st \in StationDicts :
           /\ st["inventory_ready"] >= 1
           /\ Len(st["inventory_charging"]) >= 1
           /\ st["metrics"]["total_swaps_fulfilled"] > st["initial_inventory"]

----------------------------------------------------------------------------
\* C26: in a run, every station (initial_inventory >= 0) has queue_length <= 6
\* after each of its steps, hence at the end of every minute; between the
\* arrival and the service of a step the queue is at most 7, and it is 7 only
\* when a vehicle arrived at a queue of 6 with a battery ready, in which case
\* the service of the same step makes at least one swap.
TwinDicts ==
    IF twin = <<>> THEN {}
    ELSE {twin[1].heap[twin[1].stations[i][2]] : i \in 1..Len(twin[1].stations)}
C26_QueueBounded ==
    /\ \A st \in StationDicts \cup TwinDicts :
           st["initial_inventory"] >= 0 => st["queue_length"] <= QUEUE_SOFT_LIMIT + 1
    /\ last # <<>> =>
           /\ Step.queued["queue_length"] <= QUEUE_SOFT_LIMIT + 2
           /\ Step.queued["queue_length"] = QUEUE_SOFT_LIMIT + 2 =>
                  /\ Step.arrived
                  /\ Step.charged["queue_length"] = QUEUE_SOFT_LIMIT + 1
                  /\ Step.charged["inventory_ready"] >= 1
                  /\ SwapsOfStep >= 1
\* A vehicle joined a queue of 6 and the queue was back at 6 after the service.
C26_Witness ==
    /\ last # <<>>
    /\ Step.queued["queue_length"] = 7
    /\ Step.after["queue_length"] = 6

----------------------------------------------------------------------------
\* C27: in a run, a station (initial_inventory >= 0) turns a vehicle away only
\* with inventory_ready = 0 and queue_length = 6 at the arrival: the queue is
\* never above 10 when a vehicle arrives, so queue_length > 10 is never what
\* loses a swap.
LostInStep ==
    Step.queued["metrics"]["lost_swaps"] - Step.idled["metrics"]["lost_swaps"]
C27_LossOnlyWithoutStock ==
    last # <<>> =>
        /\ Step.idled["queue_length"] <= QUEUE_HARD_LIMIT
        /\ LostInStep = 1 =>
               /\ Step.idled["inventory_ready"] = 0
               /\ Step.idled["queue_length"] = 6
\* A swap is lost at a station whose battery has been through three swaps.
C27_Witness ==
    /\ last # <<>>
    /\ LostInStep = 1
    /\ Step.before["metrics"]["total_swaps_fulfilled"] >= 3

----------------------------------------------------------------------------
\* C28 as stated: no slot-capacity check is applied, and a run started from a
\* topology with initial_inventory <= total_slots comes to a state in which a
\* station holds more batteries, ready and on charge, than total_slots.
WithinSlotsAtStart(st) == st["initial_inventory"] <= st["total_slots"]
OverCapacity ==
    \E st \in StationDicts : WithinSlotsAtStart(st) /\ Batteries(st) > st["total_slots"]
C28_OverCapacityReached == (AtRunStart /\ stations # <<>>) ~> OverCapacity
\* C28, amended: no slot-capacity check is applied, yet a station configured
\* with initial_inventory <= total_slots never holds more batteries, ready and
\* on charge, than total_slots: their number stays at initial_inventory.
C28_NeverOverCapacity ==
    \A st \in StationDicts :
        WithinSlotsAtStart(st) =>
            /\ Batteries(st) <= st["total_slots"]
            /\ Len(st["inventory_charging"]) <= st["total_slots"] - st["inventory_ready"]
\* A station with as many batteries as slots has all of them on charge, after
\* batteries came back from charge and went out again.
C28_Witness ==
    /\ Running
    /\ \E st \in StationDicts :
           /\ st["initial_inventory"] = st["total_slots"]
           /\ Len(st["inventory_charging"]) = st["total_slots"]
           /\ st["metrics"]["total_swaps_fulfilled"] > st["total_slots"]

----------------------------------------------------------------------------
\* C29: the chargers of a minute go to the batteries with the smallest
\* remaining time.  The batteries on charge split into those that progress, as
\* many as there are chargers (all of them if the chargers suffice), and the
\* rest, such that no battery that progresses has a larger remaining time than
\* one that does not; a battery that progresses loses one minute and, at zero,
\* leaves the list for inventory_ready; every other battery is in the list
\* after the charging sub-step with its remaining time unchanged.
Occurrences(q, v) == Cardinality({i \in 1..Len(q) : q[i] = v})
ChargedAsBy(P) ==
    LET was == Step.before["inventory_charging"]
        now == Step.charged["inventory_charging"]
        rest == (1..Len(was)) \ P
    IN  /\ \A p \in P, q \in rest : was[p] <= was[q]
        /\ \A v \in 0..charge_time :
               Occurrences(now, v) =
                   Cardinality({p \in P : was[p] - 1 = v /\ v > 0})
                   + Cardinality({q \in rest : was[q] = v})
        /\ Step.charged["inventory_ready"] =
               Step.before["inventory_ready"] + Cardinality({p \in P : was[p] - 1 <= 0})
C29_SmallestRemainingFirst ==
    last # <<>> =>
        LET was == Step.before["inventory_charging"]
            chargers == Step.before["chargers"]
            served == IF chargers < Len(was) THEN chargers ELSE Len(was)
        IN  \E P \in SUBSET (1..Len(was)) : Cardinality(P) = served /\ ChargedAsBy(P)
\* Two batteries on charge and one charger: the battery with 1 minute left
\* completed and the other kept its 2 minutes.
C29_Witness ==
    /\ last # <<>>
    /\ Step.before["chargers"] = 1
    /\ Step.before["inventory_charging"] = <<1, 2>>
    /\ Step.charged["inventory_charging"] = <<2>>
    /\ Step.charged["inventory_ready"] = Step.before["inventory_ready"] + 1

----------------------------------------------------------------------------
\* C30: the sub-steps of a station step run in the order charging, idle
\* accounting, arrival, service, wait accrual.  Idle minutes count the ready
\* batteries after the charging, those completed in this minute included; the
\* service makes min(4, queue after the arrival, ready batteries after the
\* charging) swaps, so a battery completed in this minute and a vehicle
\* arrived in this minute take part; the batteries swapped out are at the end
\* of the charging list with the full charge time when the step ends, behind
\* the list the charging left: they have not progressed; the wait time grows
\* by the queue the service left.
Min(a, b) == IF a <= b THEN a ELSE b
C30_SubStepOrder ==
    last # <<>> =>
        LET metric(st, name) == st["metrics"][name]
            swaps == SwapsOfStep
        IN  /\ metric(Step.idled, "idle_inventory_minutes") =
                   metric(Step.before, "idle_inventory_minutes")
                   + Step.charged["inventory_ready"]
            /\ Step.idled["queue_length"] = Step.before["queue_length"]
            /\ metric(Step.idled, "total_swaps_fulfilled") =
                   metric(Step.before, "total_swaps_fulfilled")
            /\ swaps = Min(SERVICE_BAYS, Min(Step.queued["queue_length"],
                                             Step.charged["inventory_ready"]))
            /\ Step.after["inventory_charging"] =
                   Step.charged["inventory_charging"] \o [i \in 1..swaps |-> charge_time]
            /\ metric(Step.after, "total_wait_time_minutes") =
                   metric(Step.before, "total_wait_time_minutes")
                   + Step.queued["queue_length"] - swaps
\* A station without a ready battery and without a queue: in one step its
\* battery completed the charge, a vehicle arrived, the vehicle was served with
\* that battery, and the battery taken in is on charge for the full time.
C30_Witness ==
    /\ last # <<>>
    /\ Step.before["inventory_ready"] = 0
    /\ Step.before["queue_length"] = 0
    /\ Step.before["inventory_charging"] = <<1>>
    /\ Step.charged["inventory_ready"] = 1
    /\ Step.arrived
    /\ SwapsOfStep = 1
    /\ Step.after["inventory_charging"] = <<charge_time>>
    /\ Step.after["queue_length"] = 0

----------------------------------------------------------------------------
\* C31: a station step adds to total_wait_time_minutes exactly the
\* queue_length the service of that step left, so a vehicle that arrives and is
\* served in the same step adds nothing; over a run the wait time of a station
\* is the sum of its queue lengths at the end of its steps; and at a station
\* that has served and lost nobody, a vehicle that joined in the station's
\* j-th step of n has added one minute per step from the j-th on: n - j + 1.
WaitOf(st) == st["metrics"]["total_wait_time_minutes"]
C31_WaitAccrual ==
    /\ last # <<>> =>
           LET served == Step.service[Len(Step.service)]
           IN  /\ WaitOf(Step.after) = WaitOf(Step.before) + served["queue_length"]
               /\ Step.after["queue_length"] = served["queue_length"]
               /\ (Step.before["queue_length"] = 0 /\ SwapsOfStep = 1) =>
                      WaitOf(Step.after) = WaitOf(Step.before)
    /\ (Running \/ pc = "done") =>
           \A i \in 1..Len(stations) :
               LET st == heap[stations[i][2]]
                   ds == DrawsOf(i)
                   n == Len(ds)
               IN  /\ WaitOf(st) =
                          SumSeq([j \in 1..n |->
                                     Alone(Restarted(st), ds, j)["queue_length"]])
                   /\ (st["metrics"]["total_swaps_fulfilled"] = 0
                       /\ st["metrics"]["lost_swaps"] = 0) =>
                          WaitOf(st) =
                              SumSeq([j \in 1..n |-> IF ds[j] THEN n - j + 1 ELSE 0])
\* A vehicle arrived at an empty queue and was served in the same step, at a
\* station where vehicles have waited before: the wait time did not move.
C31_Witness ==
    /\ Running
    /\ last # <<>>
    /\ Step.arrived
    /\ Step.before["queue_length"] = 0
    /\ SwapsOfStep = 1
    /\ WaitOf(Step.after) = WaitOf(Step.before)
    /\ WaitOf(Step.before) > 0

----------------------------------------------------------------------------
\* C32: a station step adds to idle_inventory_minutes exactly the
\* inventory_ready the charging of that step left, before the arrival and the
\* service of the step: nothing when no battery is ready then, and one minute
\* for a battery that completed its charge in the step and was swapped out in
\* the same step.  Over a run the idle minutes of a station are the sum, over
\* its steps, of the ready batteries at the end of the step plus the swaps of
\* the step.
IdleOf(st) == st["metrics"]["idle_inventory_minutes"]
SwapsOf(st) == st["metrics"]["total_swaps_fulfilled"]
C32_IdleAccrual ==
    /\ last # <<>> =>
           /\ IdleOf(Step.after) = IdleOf(Step.before) + Step.charged["inventory_ready"]
           /\ IdleOf(Step.after) = IdleOf(Step.idled)
           /\ Step.charged["inventory_ready"] = 0 => IdleOf(Step.after) = IdleOf(Step.before)
           /\ Step.charged["inventory_ready"] = Step.after["inventory_ready"] + SwapsOfStep
           /\ (Step.before["inventory_ready"] = 0 /\ SwapsOfStep = 1
               /\ Step.after["inventory_ready"] = 0) =>
                  IdleOf(Step.after) = IdleOf(Step.before) + 1
    /\ (Running \/ pc = "done") =>
           \A i \in 1..Len(stations) :
               LET st == heap[stations[i][2]]
                   ds == DrawsOf(i)
                   at(j) == Alone(Restarted(st), ds, j)
               IN  IdleOf(st) =
                       SumSeq([j \in 1..Len(ds) |->
                                  at(j)["inventory_ready"]
                                  + SwapsOf(at(j)) - SwapsOf(at(j - 1))])
\* A station with no ready battery: in one step of a run its battery completed
\* the charge and was swapped out to a vehicle, and the step counted one idle
\* minute for it.
C32_Witness ==
    /\ Running
    /\ last # <<>>
    /\ Step.before["inventory_ready"] = 0
    /\ Step.charged["inventory_ready"] = 1
    /\ SwapsOfStep = 1
    /\ Step.after["inventory_ready"] = 0
    /\ IdleOf(Step.after) = IdleOf(Step.before) + 1
    /\ IdleOf(Step.before) > 0

----------------------------------------------------------------------------
\* C33: with a configured charge duration of at least one minute, every
\* element of inventory_charging of every station is an integer from 1 to the
\* charge duration at every point of a run, between the blocks of a step as
\* well as at its end; and in a step, the entries that have a charger and
\* stand at 1 are exactly the ones that leave the list, each adding one to
\* inventory_ready in the charging block of that step.
ChargingEntriesOf(st) == {st["inventory_charging"][k] : k \in 1..Len(st["inventory_charging"])}
C33_ChargingEntriesPositive ==
    /\ \A st \in StationDicts \cup TwinDicts :
           ChargingEntriesOf(st) \subseteq 1..charge_time
    /\ last # <<>> =>
           LET sorted == SortSeq(Step.before["inventory_charging"], LAMBDA a, b : a < b)
               completed == {k \in 1..Len(sorted) :
                                k <= Step.before["chargers"] /\ sorted[k] = 1}
           IN  /\ Step.charged["inventory_ready"] =
                      Step.before["inventory_ready"] + Cardinality(completed)
               /\ Len(Step.charged["inventory_charging"]) =
                      Len(sorted) - Cardinality(completed)
               /\ ChargingEntriesOf(Step.charged) \subseteq 1..charge_time
               /\ \A k \in 1..Len(Step.service) :
                      ChargingEntriesOf(Step.service[k]) \subseteq 1..charge_time
\* Charge duration 4: in one step the battery standing at 1 completed its
\* charge and left the list, and the swap of the same step put an entry of the
\* full charge duration in the list.
C33_Witness ==
    /\ last # <<>>
    /\ charge_time = 4
    /\ Step.before["inventory_charging"] = <<1>>
    /\ Step.charged["inventory_ready"] = Step.before["inventory_ready"] + 1
    /\ Step.charged["inventory_charging"] = <<>>
    /\ SwapsOfStep = 1
    /\ Step.after["inventory_charging"] = <<charge_time>>

----------------------------------------------------------------------------
\* C34: vehicles are conserved at each station.  At every point of a run the
\* number of arrivals the station has had so far equals
\* total_swaps_fulfilled + lost_swaps + queue_length; a step raises that sum by
\* one when a vehicle arrived in it and leaves it alone otherwise.
VehiclesOf(st) ==
    st["metrics"]["total_swaps_fulfilled"] + st["metrics"]["lost_swaps"] + st["queue_length"]
ArrivalsOf(i) == Cardinality({j \in 1..Len(DrawsOf(i)) : DrawsOf(i)[j]})
C34_VehiclesConserved ==
    /\ (Running \/ pc = "done") =>
           \A i \in 1..Len(stations) : ArrivalsOf(i) = VehiclesOf(heap[stations[i][2]])
    /\ ((Running \/ pc = "done") /\ last # <<>>) =>
           VehiclesOf(Step.after) = VehiclesOf(Step.before) + (IF Step.arrived THEN 1 ELSE 0)
\* A run of two stations is over: one has turned vehicles away and still has a
\* queue, the other has served vehicles.
C34_Witness ==
    /\ pc = "done"
    /\ Len(stations) = 2
    /\ \E a, b \in StationDicts :
           /\ a["metrics"]["lost_swaps"] >= 1
           /\ a["queue_length"] >= 1
           /\ b["metrics"]["total_swaps_fulfilled"] >= 2
    /\ \A i \in 1..2 : ArrivalsOf(i) = MaxMinutes

----------------------------------------------------------------------------
\* C35: a battery swapped out in the station's step m is back in
\* inventory_ready no earlier than the charging block of step m + charge
\* duration, and in exactly that step when, at every charging block in
\* between, the batteries on charge were no more than the chargers.
\* The batteries on charge are followed through a run by their place in the
\* list: in a run the list is ascending when the charging block starts, the
\* block takes the completed batteries off its front, lowers the next ones on
\* chargers by one, keeps the rest, and the swaps add theirs at the end.
\* Tracked gives, for the station stepped alone through ds[1..j], its dict, a
\* tag <<m, fits>> per element of inventory_charging (m the step of the swap,
\* fits whether the batteries on charge were no more than the chargers at every
\* charging block since) and a record <<m, n, fits>> per battery returned (n
\* the step of the return).
RECURSIVE Tracked(_, _, _)
Tracked(st, ds, j) ==
    IF j = 0 THEN [st |-> st, tags |-> <<>>, returned |-> <<>>]
    ELSE LET was == Tracked(st, ds, j - 1)
             step == _simulate_station_step(was.st, ds[j], charge_time)
             on_charge == Len(step.before["inventory_charging"])
             completed == on_charge - Len(step.charged["inventory_charging"])
             fits == on_charge <= step.before["chargers"]
             marked == [k \in 1..Len(was.tags) |-> <<was.tags[k][1], was.tags[k][2] /\ fits>>]
             swapped == Len(step.service) - 1
         IN  [st |-> step.after,
              tags |-> SubSeq(marked, completed + 1, Len(marked))
                       \o [k \in 1..swapped |-> <<j, TRUE>>],
              returned |-> was.returned
                           \o [k \in 1..completed |-> <<marked[k][1], j, marked[k][2]>>]]
TrackedAt(i) == Tracked(Restarted(heap[stations[i][2]]), DrawsOf(i), Len(DrawsOf(i)))
C35_ChargeTakesFullTime ==
    /\ (Running \/ pc = "done") =>
           \A i \in 1..Len(stations) :
               LET st == heap[stations[i][2]]
                   t == TrackedAt(i)
                   n == Len(DrawsOf(i))
                   list == st["inventory_charging"]
               IN  /\ t.st = st
                   /\ Len(t.tags) = Len(list)
                   /\ \A k \in 1..Len(list) :
                          /\ list[k] >= charge_time - (n - t.tags[k][1])
                          /\ t.tags[k][2] => list[k] = charge_time - (n - t.tags[k][1])
                   /\ \A k \in 1..Len(t.returned) :
                          /\ t.returned[k][2] >= t.returned[k][1] + charge_time
                          /\ t.returned[k][3] =>
                                 t.returned[k][2] = t.returned[k][1] + charge_time
    /\ ((Running \/ pc = "done") /\ last # <<>>) =>
           LET list == Step.before["inventory_charging"]
               now == Step.charged["inventory_charging"]
               completed == Len(list) - Len(now)
           IN  /\ \A k \in 1..(Len(list) - 1) : list[k] <= list[k + 1]
               /\ \A k \in 1..completed : list[k] = 1 /\ k <= Step.before["chargers"]
               /\ \A k \in 1..Len(now) :
                      now[k] = list[k + completed]
                               - (IF k + completed <= Step.before["chargers"] THEN 1 ELSE 0)
\* A run is over in which a station got one battery back in the step of the
\* swap plus the charge duration, never short of chargers, and another battery
\* later than that, after a wait for a charger.
C35_Witness ==
    /\ pc = "done"
    /\ \E i \in 1..Len(stations) :
           LET back == TrackedAt(i).returned
           IN  /\ \E k \in 1..Len(back) :
                      back[k][3] /\ back[k][2] = back[k][1] + charge_time
               /\ \E k \in 1..Len(back) :
                      ~back[k][3] /\ back[k][2] > back[k][1] + charge_time

----------------------------------------------------------------------------
\* C36: service is work-conserving.  When a station step ends with a vehicle
\* in the queue and a battery ready, the step has made exactly 4 swaps; a step
\* that made fewer than 4 swaps ends with an empty queue or with no battery
\* ready.
C36_WorkConserving ==
    last # <<>> =>
        /\ (Step.after["queue_length"] > 0 /\ Step.after["inventory_ready"] > 0) =>
               SwapsOfStep = SERVICE_BAYS
        /\ SwapsOfStep < SERVICE_BAYS =>
               (Step.after["queue_length"] = 0 \/ Step.after["inventory_ready"] = 0)
\* A step made 4 swaps and left both a queue and a ready battery.
C36_Witness ==
    /\ last # <<>>
    /\ SwapsOfStep = SERVICE_BAYS
    /\ Step.after["queue_length"] > 0
    /\ Step.after["inventory_ready"] > 0

----------------------------------------------------------------------------
\* C37: two /api/simulation/run requests served at the same time share no
\* station state.  Under every interleaving of their steps: the dicts of
\* MOCK_STATIONS stay as they were loaded; the station dicts and the
\* initial_state of each request are objects of that request, none of them a
\* dict of MOCK_STATIONS; at every point of its run the stations of a request
\* are what running that request alone, from MOCK_STATIONS as loaded and with
\* the arrival outcomes the request has had, gives; and its response is the
\* report of that run alone.
\* The heap after the first k arrival outcomes ds of a run taken alone.
RECURSIVE AloneSteps(_, _, _, _, _)
AloneSteps(h, od, ds, k, charge_time_minutes) ==
    IF k = 0 THEN h
    ELSE LET was == AloneSteps(h, od, ds, k - 1, charge_time_minutes)
             ref == od[((k - 1) % Len(od)) + 1][2]
         IN  [was EXCEPT ![ref] =
                 _simulate_station_step(was[ref], ds[k], charge_time_minutes).after]
Loaded == [r \in {<<"topo", i>> : i \in 1..Len(MOCK_STATIONS)} |-> MOCK_STATIONS[r[2]]]
C37_RequestsIsolated ==
    /\ heap = Loaded
    /\ \A t \in DOMAIN threads :
           LET th == threads[t]
               own == {th.stations[i][2] : i \in 1..Len(th.stations)}
                          \cup {th.initial_state[i] : i \in 1..Len(th.initial_state)}
               alone == Started(Loaded, stations_data, th.request)
               after == AloneSteps(alone.heap, alone.stations, th.draws, Len(th.draws),
                                   th.charge_time)
           IN  /\ own \subseteq DOMAIN th.heap
               /\ \A r \in own : r[1] # "topo"
               /\ th.pc \in {"loop", "stations", "done"} =>
                      ReadStations(Reach(t), th.stations)
                          = ReadStations(after, alone.stations)
               /\ th.pc = "done" =>
                      th.report = <<_generate_report(after, alone.stations, ServeMinutes)>>
\* Two requests with different bodies have been answered, each took station
\* steps while the other was inside its loop, each served vehicles, and the
\* two reports differ.
C37_Witness ==
    /\ threads # <<>>
    /\ \A t \in Workers : threads[t].pc = "done" /\ threads[t].beside
    /\ threads[1].request # threads[2].request
    /\ threads[1].report # threads[2].report
    /\ \A t \in Workers : threads[t].report[1]["total_swaps"] >= 2

----------------------------------------------------------------------------
\* C38: with a demand curve configured, the arrival probability
\* _get_arrival_probability returns for a minute is the curve's value at
\* floor(minute / 60) mod 24 times 0.4, for whichever station it is asked: it
\* is the same at all 60 minutes of the hour, and for curve values in [0, 1]
\* it is in [0, 0.4], hence in [0, 1].
HourOf(m) == (m \div MINUTES_PER_HOUR) % HOURS_PER_DAY
C38_ArrivalProbabilityByHour ==
    pc = "arrival" =>
        LET prob == last[1].arrival_prob
            first == minute - (minute % MINUTES_PER_HOUR)
        IN  /\ prob[2] > 0
            /\ REq(prob, RMul(demand_curve[HourOf(minute) + 1], Rat(4, 10)))
            /\ \A m \in first..(first + MINUTES_PER_HOUR - 1) :
                   /\ HourOf(m) = HourOf(minute)
                   /\ REq(_get_arrival_probability(demand_curve, Rat(m, MINUTES_PER_HOUR)),
                          prob)
            /\ (\A h \in 1..HOURS_PER_DAY :
                    RLeq(Rat(0, 1), demand_curve[h]) /\ RLeq(demand_curve[h], ROne)) =>
                   /\ RLeq(Rat(0, 1), prob)
                   /\ RLeq(prob, Rat(4, 10))
                   /\ RLeq(prob, ROne)
\* 08:59 of the second day, on the rising curve, for the second station: the
\* probability is that of hour 8, 0.348 times 0.4.
C38_Witness ==
    /\ pc = "arrival"
    /\ demand_curve = Ramp
    /\ last[1].sid = "S2"
    /\ minute = (HOURS_PER_DAY + 8) * MINUTES_PER_HOUR + 59
    /\ demand_curve[9] = Rat(348, 1000)
    /\ REq(last[1].arrival_prob, Rat(1392, 10000))

====
